---- MODULE Spec2Model ----
(***************************************************************************)
(* The congestion-control session of NetworkSimulation: class TCPTahoe     *)
(* with its four algorithms (TAHOE, RENO, CUBIC, BBR), as implemented in   *)
(* tcp_tahoe.cpp and declared in tcp_tahoe.h.                              *)
(*                                                                         *)
(* Number representation.  cwnd, ssthresh, rtt and timeout are C++ int     *)
(* fields, so every double expression assigned to them is truncated.       *)
(* double fields are kept as scaled integers:                              *)
(*   cubic_beta            in tenths      (7 is 0.7, 8 is 0.8)             *)
(*   packet_loss_rate      in thousandths (60 is 0.06)                     *)
(*   network_utilization   in hundredths  (80 is 0.8)                      *)
(* A throughput (a double) n / (r * m) is the triple <<n, r, m>>.           *)
(* The steady clock is the variable now, in milliseconds.                  *)
(***************************************************************************)
EXTENDS Integers, Sequences, FiniteSets, TLC

\* ---------------------------------------------------------------- bounds
\* Longest history in the specification with every operation (Spec).
MaxHist == 3
\* Number of clock ticks (of TickMs each) the steady clock may advance.
MaxTicks == 1
\* Largest rtt that simulate_network_congestion may still inflate.
MaxRtt == 200
\* Longest history in the specification of the four stimuli (SpecCore).
MaxCoreHist == 11
\* Most loss events (timeouts, fast retransmits) in one history of SpecCore.
MaxLoss == 2
\* Longest history of the single-algorithm class (SpecBasic).
MaxBasicHist == 6
\* Most messages in message_history when a caller sends one more, and the
\* number of unreturned optimizer calls the stack of the process holds
\* (SpecCrossLayer).
MaxMessages == 1
MaxStack == 4
\* Most packets StopAndWait accepts, most acknowledgements it counts, and
\* the number of clock ticks (of SawTickMs each) in SpecStopAndWait.
MaxPackets == 2
MaxAcks == 2
MaxSawTicks == 4
\* Longest history of the two TCPTahoe classes driven together (SpecPair).
MaxPairHist == 17
\* Longest history in the specification of the round-trip timing (SpecTiming).
MaxTimingHist == 1

\* ------------------------------------------------------- program constants
InitialCwnd == 1
InitialSsthresh == 65535
InitialRtt == 100
InitialTimeout == 200
\* cubic_c = 0.4, in tenths
CubicC == 4
\* bbr_min_rtt = 100.0
BbrMinRtt == 100
\* bbr_max_bandwidth = 10.0
BbrMaxBandwidth == 10
\* duplicate_ack_count >= 3
FastRetransmitThreshold == 3
\* 1500.0 byte packets
PacketBytes == 1500

\* The range of the C++ int fields (32 bits).
IntMax == 2147483647
IntMin == -IntMax - 1

Algorithms == {"TAHOE", "RENO", "CUBIC", "BBR"}
TCPStates == {"SLOW_START", "CONGESTION_AVOIDANCE", "FAST_RECOVERY", "TIMEOUT"}

\* One clock tick of the model, in milliseconds.
TickMs == 2 * 1000
\* Arguments given to set_network_conditions: <<loss_rate, utilization, delay>>.
ConditionInputs == {<<0, 0, 0>>, <<30, 50, 5>>, <<60, 80, 10>>, <<1000, 82, 0>>}
\* Values of dis(gen), in thousandths: a draw from [0, 1).
Draws == {0, 40, 999}
\* Arguments given to receive_ack.
AckNumbers == {0, 1}

VARIABLES cwnd, ssthresh, rtt, timeout, duplicate_ack_count, in_slow_start,
          algorithm, current_state,
          cwnd_history, ssthresh_history, state_history, throughput_history,
          rtt_history,
          cubic_beta, last_cwnd_reduction_time,
          packet_loss_rate, network_utilization, queue_delay,
          now

vars == <<cwnd, ssthresh, rtt, timeout, duplicate_ack_count, in_slow_start,
          algorithm, current_state,
          cwnd_history, ssthresh_history, state_history, throughput_history,
          rtt_history,
          cubic_beta, last_cwnd_reduction_time,
          packet_loss_rate, network_utilization, queue_delay,
          now>>

histories == <<cwnd_history, ssthresh_history, state_history,
               throughput_history, rtt_history>>
conditions == <<packet_loss_rate, network_utilization, queue_delay>>

\* The single-algorithm TCPTahoe class: its data members.
VARIABLES basic_cwnd, basic_ssthresh, basic_rtt, basic_timeout,
          basic_in_slow_start,
          basic_cwnd_history, basic_ssthresh_history, basic_state_history

basic_vars == <<basic_cwnd, basic_ssthresh, basic_rtt, basic_timeout,
                basic_in_slow_start,
                basic_cwnd_history, basic_ssthresh_history,
                basic_state_history>>

\* StopAndWait: its data members (rtt_history under the name saw_rtt_history),
\* the value its last call returned, and whether the process has been ended.
VARIABLES sequence_number, ack_number, waiting_for_ack,
          packet_history, ack_history, saw_rtt_history,
          last_send_time, timeout_ms,
          total_packets_sent, total_packets_acked, total_timeouts,
          returned, halted

saw_vars == <<sequence_number, ack_number, waiting_for_ack,
              packet_history, ack_history, saw_rtt_history,
              last_send_time, timeout_ms,
              total_packets_sent, total_packets_acked, total_timeouts,
              returned, halted>>

\* CrossLayerOptimizer: its data members that the message handling reads or
\* writes (tcp_layer and lte_network: whether a layer instance is
\* registered; tcp_layer points to the session), the calls of the optimizer
\* that have not returned (call_stack, the innermost last), whether the last
\* call left by an exception (thrown), and whether the calls have outgrown
\* the stack of the process (stack_overflow).
VARIABLES adaptive_optimization_enabled, tcp_layer, lte_network,
          layer_states, message_history,
          call_stack, thrown, stack_overflow

optimizer_vars == <<adaptive_optimization_enabled, tcp_layer, lte_network,
                    layer_states, message_history,
                    call_stack, thrown, stack_overflow>>

\* The objects other than the four-algorithm session.
other_objects == <<basic_vars, saw_vars, optimizer_vars>>

\* Max without the clamp: the first argument whatever the second.
MaxUnclamped(a, b) == a
Max(a, b) == IF a >= b THEN a ELSE b
Min(a, b) == IF a <= b THEN a ELSE b

\* ------------------------------------------------------ double arithmetic
\* c * 0.7 in IEEE-754 double rounds below the integer 7c/10 exactly for the
\* multiples of 10 with 2.5 * 2^k < c and 0.7 * c < 2^(k+1) (90, 170, 180, ...).
RoundsBelow(c) ==
    /\ c % 10 = 0
    /\ \E k \in 0..17 : 5 * 2^k < 2 * c /\ 7 * c < 20 * 2^k

\* static_cast<int>(cwnd * cubic_beta), for cubic_beta 0.7 or 0.8.
TruncTimesBeta(c, beta) ==
    IF beta = 7 /\ RoundsBelow(c) THEN (7 * c) \div 10 - 1
    ELSE (beta * c) \div 10

\* target_cwnd = cubic_c * pow(t, 3) + cwnd / cubic_beta, with t the seconds
\* from last_cwnd_reduction_time to current_time, as the exact fraction
\* CubicTargetNum / CubicTargetDen (exact for whole tenths of a second).
\* CubicTargetNum with wmax = cwnd * cubic_beta in place of cwnd / cubic_beta.
CubicTargetNumTimesBeta(c, beta, elapsed_ms) ==
    LET ds == elapsed_ms \div 100
    IN  CubicC * ds * ds * ds * beta + 1000 * c * beta * beta

CubicTargetNum(c, beta, elapsed_ms) ==
    LET ds == elapsed_ms \div 100
    IN  CubicC * ds * ds * ds * beta + 100000 * c
CubicTargetDen(beta) == 10000 * beta

\* (cwnd * 1500.0 * 8.0) / (rtt * 1000.0), or 0.0 when rtt = 0: the double
\* quotient n / (r * m), kept as <<n, r, m>>.
calculate_throughput ==
    IF rtt = 0 THEN <<0, 1, 1>>
    ELSE <<cwnd * PacketBytes * 8, rtt, 1000>>

\* ------------------------------------------------------------ constructor
Init ==
    /\ cwnd = InitialCwnd
    /\ ssthresh = InitialSsthresh
    /\ rtt = InitialRtt
    /\ timeout = InitialTimeout
    /\ duplicate_ack_count = 0
    /\ in_slow_start = TRUE
    /\ algorithm \in Algorithms
    /\ current_state = "SLOW_START"
    /\ cwnd_history = <<>>
    /\ ssthresh_history = <<>>
    /\ state_history = <<>>
    /\ throughput_history = <<>>
    /\ rtt_history = <<>>
    /\ cubic_beta = 7
    /\ last_cwnd_reduction_time = 0
    /\ packet_loss_rate = 0
    /\ network_utilization = 0
    /\ queue_delay = 0
    /\ now \in {k * TickMs : k \in 0..MaxTicks}

\* --------------------------------------------------- growth rules on send
\* Each rule writes cwnd, current_state, in_slow_start and state_history.
\* SlowStartGrowth leaving slow start only once cwnd exceeds ssthresh.
SlowStartGrowthStrict(label) ==
    /\ state_history' = Append(state_history, label)
    /\ cwnd' = cwnd * 2
    /\ IF cwnd * 2 > ssthresh
       THEN current_state' = "CONGESTION_AVOIDANCE" /\ in_slow_start' = FALSE
       ELSE UNCHANGED <<current_state, in_slow_start>>

\* SlowStartGrowth testing the window against ssthresh before doubling it.
SlowStartGrowthTestingFirst(label) ==
    /\ state_history' = Append(state_history, label)
    /\ cwnd' = cwnd * 2
    /\ IF cwnd >= ssthresh
       THEN current_state' = "CONGESTION_AVOIDANCE" /\ in_slow_start' = FALSE
       ELSE UNCHANGED <<current_state, in_slow_start>>

SlowStartGrowth(label) ==
    /\ state_history' = Append(state_history, label)
    /\ cwnd' = cwnd * 2
    /\ IF cwnd * 2 >= ssthresh
       THEN current_state' = "CONGESTION_AVOIDANCE" /\ in_slow_start' = FALSE
       ELSE UNCHANGED <<current_state, in_slow_start>>

tahoe_congestion_control ==
    IF current_state = "SLOW_START"
    THEN SlowStartGrowth("Slow Start")
    ELSE /\ state_history' = Append(state_history, "Congestion Avoidance")
         /\ cwnd' = cwnd + 1
         /\ UNCHANGED <<current_state, in_slow_start>>

\* cwnd += 1.0 / cwnd on an int: cwnd + 1/cwnd truncated.
RenoAvoidanceCwnd(c) == (c * c + 1) \div c

\* reno_congestion_control deflating the window on a send in fast recovery.
reno_congestion_control_deflating ==
    IF current_state = "SLOW_START"
    THEN SlowStartGrowth("Slow Start")
    ELSE IF current_state = "CONGESTION_AVOIDANCE"
    THEN /\ state_history' = Append(state_history, "Congestion Avoidance")
         /\ cwnd' = RenoAvoidanceCwnd(cwnd)
         /\ UNCHANGED <<current_state, in_slow_start>>
    ELSE IF current_state = "FAST_RECOVERY"
    THEN /\ state_history' = Append(state_history, "Fast Recovery")
         /\ cwnd' = ssthresh
         /\ current_state' = "CONGESTION_AVOIDANCE"
         /\ UNCHANGED in_slow_start
    ELSE UNCHANGED <<state_history, cwnd, current_state, in_slow_start>>

\* reno_congestion_control pushing no state label for a send in fast recovery.
reno_congestion_control_silent_recovery ==
    IF current_state = "SLOW_START"
    THEN SlowStartGrowth("Slow Start")
    ELSE IF current_state = "CONGESTION_AVOIDANCE"
    THEN /\ state_history' = Append(state_history, "Congestion Avoidance")
         /\ cwnd' = RenoAvoidanceCwnd(cwnd)
         /\ UNCHANGED <<current_state, in_slow_start>>
    ELSE IF current_state = "FAST_RECOVERY"
    THEN /\ cwnd' = cwnd + 1
         /\ UNCHANGED <<state_history, current_state, in_slow_start>>
    ELSE UNCHANGED <<state_history, cwnd, current_state, in_slow_start>>

reno_congestion_control ==
    IF current_state = "SLOW_START"
    THEN SlowStartGrowth("Slow Start")
    ELSE IF current_state = "CONGESTION_AVOIDANCE"
    THEN /\ state_history' = Append(state_history, "Congestion Avoidance")
         /\ cwnd' = RenoAvoidanceCwnd(cwnd)
         /\ UNCHANGED <<current_state, in_slow_start>>
    ELSE IF current_state = "FAST_RECOVERY"
    THEN /\ state_history' = Append(state_history, "Fast Recovery")
         /\ cwnd' = cwnd + 1
         /\ UNCHANGED <<current_state, in_slow_start>>
    ELSE UNCHANGED <<state_history, cwnd, current_state, in_slow_start>>

\* The cwnd that the congestion-avoidance branch of CUBIC assigns when the
\* clock reads current_time: min(target_cwnd, cwnd + 1.0) if the target
\* exceeds cwnd, else cwnd + 1.0 / cwnd, truncated to int.
\* CubicAvoidanceCwnd jumping to the target without the cap of cwnd + 1.
CubicAvoidanceCwndUncapped(current_time) ==
    LET elapsed == current_time - last_cwnd_reduction_time
        num == CubicTargetNum(cwnd, cubic_beta, elapsed)
        den == CubicTargetDen(cubic_beta)
    IN  IF num > cwnd * den
        THEN num \div den
        ELSE RenoAvoidanceCwnd(cwnd)

CubicAvoidanceCwnd(current_time) ==
    LET elapsed == current_time - last_cwnd_reduction_time
        num == CubicTargetNum(cwnd, cubic_beta, elapsed)
        den == CubicTargetDen(cubic_beta)
    IN  IF num > cwnd * den
        THEN Min(num \div den, cwnd + 1)
        ELSE RenoAvoidanceCwnd(cwnd)

cubic_congestion_control ==
    LET current_time == now
    IN  IF current_state = "SLOW_START"
        THEN SlowStartGrowth("CUBIC Slow Start")
        ELSE /\ state_history' =
                    Append(state_history, "CUBIC Congestion Avoidance")
             /\ cwnd' = CubicAvoidanceCwnd(current_time)
             /\ UNCHANGED <<current_state, in_slow_start>>

bbr_congestion_control ==
    LET target_cwnd == ((BbrMaxBandwidth * BbrMinRtt) \div 8) * 2
    IN  /\ state_history' = Append(state_history, "BBR")
        /\ cwnd' = IF cwnd < target_cwnd
                   THEN Min(target_cwnd, (cwnd * 5) \div 4)
                   ELSE IF 4 * cwnd > 5 * target_cwnd
                   THEN Max(target_cwnd, (cwnd * 9) \div 10)
                   ELSE cwnd
        /\ current_state' = "CONGESTION_AVOIDANCE"
        /\ UNCHANGED in_slow_start

\* rtt * 2 on 32-bit ints.  Beyond the int range the multiplication is
\* undefined; the builds of this program compute it in two's complement, so
\* the product wraps.
DoubledRtt ==
    IF rtt > IntMax \div 2 THEN (rtt - (IntMax \div 2 + 1)) * 2 + IntMin
    ELSE IF rtt < -(IntMax \div 2) - 1
    THEN ((rtt + IntMax \div 2 + 1) * 2 + IntMax) + 1
    ELSE rtt * 2

\* adaptive_congestion_response recomputing timeout only where it retunes.
adaptive_congestion_response_timeout_in_branches ==
    /\ cubic_beta' = IF packet_loss_rate > 50
                     THEN (IF algorithm = "CUBIC" THEN 8 ELSE cubic_beta)
                     ELSE IF packet_loss_rate < 10
                     THEN (IF algorithm = "CUBIC" THEN 7 ELSE cubic_beta)
                     ELSE cubic_beta
    /\ timeout' = IF packet_loss_rate > 50 \/ packet_loss_rate < 10
                  THEN rtt * 2
                  ELSE timeout

\* adaptive_congestion_response retuning cubic_beta under every algorithm.
adaptive_congestion_response_any_algorithm ==
    /\ cubic_beta' = IF packet_loss_rate > 50 THEN 8
                     ELSE IF packet_loss_rate < 10 THEN 7
                     ELSE cubic_beta
    /\ timeout' = rtt * 2

\* Writes cubic_beta and timeout.
adaptive_congestion_response ==
    /\ cubic_beta' = IF packet_loss_rate > 50
                     THEN (IF algorithm = "CUBIC" THEN 8 ELSE cubic_beta)
                     ELSE IF packet_loss_rate < 10
                     THEN (IF algorithm = "CUBIC" THEN 7 ELSE cubic_beta)
                     ELSE cubic_beta
    /\ timeout' = DoubledRtt

\* send_packet clearing duplicate_ack_count.
send_packet_clearing_count ==
    /\ cwnd_history' = Append(cwnd_history, cwnd)
    /\ ssthresh_history' = Append(ssthresh_history, ssthresh)
    /\ throughput_history' = Append(throughput_history, calculate_throughput)
    /\ rtt_history' = Append(rtt_history, rtt)
    /\ CASE algorithm = "TAHOE" -> tahoe_congestion_control
         [] algorithm = "RENO"  -> reno_congestion_control
         [] algorithm = "CUBIC" -> cubic_congestion_control
         [] algorithm = "BBR"   -> bbr_congestion_control
    /\ adaptive_congestion_response
    /\ duplicate_ack_count' = 0
    /\ UNCHANGED <<ssthresh, rtt, algorithm, last_cwnd_reduction_time,
                   conditions, now>>

\* send_packet sampling the throughput after the growth rule has run.
send_packet_sampling_after ==
    /\ cwnd_history' = Append(cwnd_history, cwnd)
    /\ ssthresh_history' = Append(ssthresh_history, ssthresh)
    /\ CASE algorithm = "TAHOE" -> tahoe_congestion_control
         [] algorithm = "RENO"  -> reno_congestion_control
         [] algorithm = "CUBIC" -> cubic_congestion_control
         [] algorithm = "BBR"   -> bbr_congestion_control
    /\ throughput_history' =
           Append(throughput_history,
                  IF rtt = 0 THEN <<0, 1, 1>>
                  ELSE <<cwnd' * PacketBytes * 8, rtt, 1000>>)
    /\ rtt_history' = Append(rtt_history, rtt)
    /\ adaptive_congestion_response
    /\ UNCHANGED <<ssthresh, rtt, duplicate_ack_count, algorithm,
                   last_cwnd_reduction_time, conditions, now>>

send_packet ==
    /\ cwnd_history' = Append(cwnd_history, cwnd)
    /\ ssthresh_history' = Append(ssthresh_history, ssthresh)
    /\ throughput_history' = Append(throughput_history, calculate_throughput)
    /\ rtt_history' = Append(rtt_history, rtt)
    /\ CASE algorithm = "TAHOE" -> tahoe_congestion_control
         [] algorithm = "RENO"  -> reno_congestion_control
         [] algorithm = "CUBIC" -> cubic_congestion_control
         [] algorithm = "BBR"   -> bbr_congestion_control
    /\ adaptive_congestion_response
    /\ UNCHANGED <<ssthresh, rtt, duplicate_ack_count, algorithm,
                   last_cwnd_reduction_time, conditions, now>>

\* ------------------------------------------------------------ loss events
\* The variables timeout_event and a fast retransmit write.
LossWrites == <<cwnd, ssthresh, current_state, in_slow_start,
                duplicate_ack_count, last_cwnd_reduction_time,
                cwnd_history, ssthresh_history, state_history>>

\* HalfWindow rounding the half up.
HalfWindowRoundedUp(c) == Max((c + 1) \div 2, 1)

\* std::max(cwnd / 2, 1) on ints.
HalfWindow(c) == Max(c \div 2, 1)

\* RenoRecoveryCwnd without the three duplicate acknowledgements.
RenoRecoveryCwndFlat(s) == s

\* cwnd = ssthresh + 3 (fast recovery).
RenoRecoveryCwnd(s) == s + 3

\* TAHOE and RENO on a timeout, TAHOE on a fast retransmit.
TahoeLoss(label) ==
    /\ state_history' = Append(state_history, label)
    /\ ssthresh' = HalfWindow(cwnd)
    /\ cwnd' = 1
    /\ current_state' = "SLOW_START"
    /\ in_slow_start' = TRUE

CubicTimeout ==
    /\ state_history' = Append(state_history, "CUBIC Timeout")
    /\ ssthresh' = Max(TruncTimesBeta(cwnd, cubic_beta), 1)
    /\ cwnd' = 1
    /\ current_state' = "SLOW_START"
    /\ in_slow_start' = TRUE

\* BbrTimeout going back to slow start as the other algorithms do.
BbrTimeoutToSlowStart ==
    /\ state_history' = Append(state_history, "BBR Timeout")
    /\ cwnd' = Max((cwnd * 8) \div 10, 1)
    /\ current_state' = "SLOW_START"
    /\ in_slow_start' = TRUE
    /\ UNCHANGED ssthresh

BbrTimeout ==
    /\ state_history' = Append(state_history, "BBR Timeout")
    /\ cwnd' = Max((cwnd * 8) \div 10, 1)
    /\ UNCHANGED <<ssthresh, current_state, in_slow_start>>

\* The body of timeout_event: what it writes (it is also called from
\* simulate_network_congestion).
timeout_event_body ==
    LET current_time == now
    IN  /\ cwnd_history' = Append(cwnd_history, cwnd)
        /\ ssthresh_history' = Append(ssthresh_history, ssthresh)
        /\ last_cwnd_reduction_time' = current_time
        /\ CASE algorithm = "TAHOE" -> TahoeLoss("Timeout")
             [] algorithm = "RENO"  -> TahoeLoss("Timeout")
             [] algorithm = "CUBIC" -> CubicTimeout
             [] algorithm = "BBR"   -> BbrTimeout
        /\ duplicate_ack_count' = 0

timeout_event ==
    /\ timeout_event_body
    /\ UNCHANGED <<rtt, timeout, throughput_history, rtt_history, cubic_beta,
                   algorithm, conditions, now>>

RenoFastRetransmit ==
    /\ state_history' = Append(state_history, "Fast Retransmit")
    /\ ssthresh' = HalfWindow(cwnd)
    /\ cwnd' = RenoRecoveryCwnd(HalfWindow(cwnd))
    /\ current_state' = "FAST_RECOVERY"
    /\ in_slow_start' = FALSE

\* CubicFastRetransmit inflating the window by three segments as RENO does.
CubicFastRetransmitInflating ==
    /\ state_history' = Append(state_history, "CUBIC Fast Retransmit")
    /\ ssthresh' = Max(TruncTimesBeta(cwnd, cubic_beta), 1)
    /\ cwnd' = Max(TruncTimesBeta(cwnd, cubic_beta), 1) + 3
    /\ current_state' = "CONGESTION_AVOIDANCE"
    /\ in_slow_start' = FALSE

CubicFastRetransmit ==
    /\ state_history' = Append(state_history, "CUBIC Fast Retransmit")
    /\ ssthresh' = Max(TruncTimesBeta(cwnd, cubic_beta), 1)
    /\ cwnd' = Max(TruncTimesBeta(cwnd, cubic_beta), 1)
    /\ current_state' = "CONGESTION_AVOIDANCE"
    /\ in_slow_start' = FALSE

\* BbrFastRetransmit reducing the window as a timeout does.
BbrFastRetransmitReducing ==
    /\ state_history' = Append(state_history, "BBR Fast Retransmit")
    /\ cwnd' = Max((cwnd * 8) \div 10, 1)
    /\ ssthresh' = HalfWindow(cwnd)
    /\ UNCHANGED <<current_state, in_slow_start>>

BbrFastRetransmit ==
    /\ state_history' = Append(state_history, "BBR Fast Retransmit")
    /\ UNCHANGED <<cwnd, ssthresh, current_state, in_slow_start>>

\* fast_retransmit logging the window after its update instead of before.
fast_retransmit_logging_after ==
    LET current_time == now
    IN  /\ CASE algorithm = "TAHOE" -> TahoeLoss("Fast Retransmit")
             [] algorithm = "RENO"  -> RenoFastRetransmit
             [] algorithm = "CUBIC" -> CubicFastRetransmit
             [] algorithm = "BBR"   -> BbrFastRetransmit
        /\ cwnd_history' = Append(cwnd_history, cwnd')
        /\ ssthresh_history' = Append(ssthresh_history, ssthresh')
        /\ last_cwnd_reduction_time' = current_time
        /\ duplicate_ack_count' = 0

\* fast_retransmit with TAHOE entering fast recovery as RENO does.
fast_retransmit_tahoe_recovering ==
    LET current_time == now
    IN  /\ cwnd_history' = Append(cwnd_history, cwnd)
        /\ ssthresh_history' = Append(ssthresh_history, ssthresh)
        /\ last_cwnd_reduction_time' = current_time
        /\ CASE algorithm = "TAHOE" -> RenoFastRetransmit
             [] algorithm = "RENO"  -> RenoFastRetransmit
             [] algorithm = "CUBIC" -> CubicFastRetransmit
             [] algorithm = "BBR"   -> BbrFastRetransmit
        /\ duplicate_ack_count' = 0

\* The branch of duplicate_ack taken when the count reaches the threshold.
fast_retransmit ==
    LET current_time == now
    IN  /\ cwnd_history' = Append(cwnd_history, cwnd)
        /\ ssthresh_history' = Append(ssthresh_history, ssthresh)
        /\ last_cwnd_reduction_time' = current_time
        /\ CASE algorithm = "TAHOE" -> TahoeLoss("Fast Retransmit")
             [] algorithm = "RENO"  -> RenoFastRetransmit
             [] algorithm = "CUBIC" -> CubicFastRetransmit
             [] algorithm = "BBR"   -> BbrFastRetransmit
        /\ duplicate_ack_count' = 0

\* BelowThreshold stamping the reduction time on every duplicate.
BelowThresholdStamping ==
    /\ duplicate_ack_count' = duplicate_ack_count + 1
    /\ last_cwnd_reduction_time' = now
    /\ UNCHANGED <<cwnd, ssthresh, current_state, in_slow_start,
                   cwnd_history, ssthresh_history, state_history>>

\* The other branch: only the increment has happened.
BelowThreshold ==
    /\ duplicate_ack_count' = duplicate_ack_count + 1
    /\ UNCHANGED <<cwnd, ssthresh, current_state, in_slow_start,
                   last_cwnd_reduction_time, cwnd_history,
                   ssthresh_history, state_history>>

duplicate_ack ==
    /\ IF duplicate_ack_count + 1 >= FastRetransmitThreshold
       THEN fast_retransmit
       ELSE BelowThreshold
    /\ UNCHANGED <<rtt, timeout, throughput_history, rtt_history, cubic_beta,
                   algorithm, conditions, now>>

\* receive_ack collapsing the window to ssthresh on every acknowledgement.
receive_ack_unconditional(ack_num) ==
    /\ current_state' = "CONGESTION_AVOIDANCE"
    /\ cwnd' = ssthresh
    /\ duplicate_ack_count' = 0
    /\ UNCHANGED <<ssthresh, rtt, timeout, in_slow_start, algorithm, histories,
                   cubic_beta, last_cwnd_reduction_time, conditions, now>>

receive_ack(ack_num) ==
    /\ IF current_state = "FAST_RECOVERY" /\ algorithm = "RENO"
       THEN current_state' = "CONGESTION_AVOIDANCE" /\ cwnd' = ssthresh
       ELSE UNCHANGED <<current_state, cwnd>>
    /\ duplicate_ack_count' = 0
    /\ UNCHANGED <<ssthresh, rtt, timeout, in_slow_start, algorithm, histories,
                   cubic_beta, last_cwnd_reduction_time, conditions, now>>

\* ----------------------------------------------------- network conditions
set_network_conditions(loss_rate, utilization, delay) ==
    /\ packet_loss_rate' = loss_rate
    /\ network_utilization' = utilization
    /\ queue_delay' = delay
    /\ UNCHANGED <<cwnd, ssthresh, rtt, timeout, duplicate_ack_count,
                   in_slow_start, algorithm, current_state, histories,
                   cubic_beta, last_cwnd_reduction_time, now>>

\* r * (1.0 + u) in IEEE-754 double rounds below the integer r(100 + u)/100
\* for u = 0.82 exactly at the multiples of 50 with 25 * 2^k < 36 * r and
\* 0.91 * r < 2^k (50, 100, 200, 250, ...): 1.0 + 0.82 is the double just
\* under 1.82.  For u = 0.8 (1.0 + 0.8 is a double just over 1.8) it never does.
InflationRoundsBelow(r, u) ==
    /\ u = 82
    /\ r % 50 = 0
    /\ \E k \in 0..30 : 25 * 2^k < 36 * r /\ 91 * r < 100 * 2^k

\* floor(a * m / 100) for a >= 0, by parts so that no intermediate value
\* leaves the int range when the result is inside it.
ScaledByHundredths(a, m) == (a \div 100) * m + ((a % 100) * m) \div 100

\* Whether a * m / 100, for a >= 0, is beyond IntMax.
ScaledBeyondInt(a, m) ==
    \/ a \div 100 > IntMax \div m
    \/ /\ a \div 100 = IntMax \div m
       /\ ((a % 100) * m) \div 100 > IntMax - (a \div 100) * m

\* static_cast<int>(rtt * (1.0 + network_utilization)), where the product is
\* inside the int range.
InflatedRtt ==
    IF InflationRoundsBelow(rtt, network_utilization)
    THEN ScaledByHundredths(rtt, 100 + network_utilization) - 1
    ELSE ScaledByHundredths(rtt, 100 + network_utilization)

\* The values the conversion can leave in rtt.  A product outside the int
\* range makes the conversion undefined: the x86-64 conversion instruction
\* yields IntMin whatever the sign, the AArch64 one saturates.
InflatedRttOutcomes ==
    IF rtt >= 0
    THEN IF ScaledBeyondInt(rtt, 100 + network_utilization)
         THEN {IntMin, IntMax}
         ELSE {InflatedRtt}
    ELSE IF rtt = IntMin \/ ScaledBeyondInt(-rtt, 100 + network_utilization)
         THEN {IntMin}
         ELSE {-ScaledByHundredths(-rtt, 100 + network_utilization)}

\* draw is the value of dis(gen).
simulate_network_congestion(draw) ==
    /\ IF draw < packet_loss_rate
       THEN timeout_event_body
       ELSE UNCHANGED LossWrites
    /\ rtt' \in IF network_utilization > 70 THEN InflatedRttOutcomes ELSE {rtt}
    /\ UNCHANGED <<timeout, throughput_history, rtt_history, cubic_beta,
                   algorithm, conditions, now>>

\* ------------------------------------------------------------------ reset
\* reset_body without rtt_history.clear().
reset_body_keeping_rtt_history ==
    /\ cwnd' = 1
    /\ ssthresh' = 65535
    /\ duplicate_ack_count' = 0
    /\ in_slow_start' = TRUE
    /\ current_state' = "SLOW_START"
    /\ cwnd_history' = <<>>
    /\ ssthresh_history' = <<>>
    /\ state_history' = <<>>
    /\ throughput_history' = <<>>
    /\ UNCHANGED rtt_history

\* What reset writes.
reset_body ==
    /\ cwnd' = 1
    /\ ssthresh' = 65535
    /\ duplicate_ack_count' = 0
    /\ in_slow_start' = TRUE
    /\ current_state' = "SLOW_START"
    /\ cwnd_history' = <<>>
    /\ ssthresh_history' = <<>>
    /\ state_history' = <<>>
    /\ throughput_history' = <<>>
    /\ rtt_history' = <<>>

\* reset restoring the construction-time rtt and timeout as well.
reset_restoring_timing ==
    /\ reset_body
    /\ rtt' = InitialRtt
    /\ timeout' = InitialTimeout
    /\ UNCHANGED <<algorithm, cubic_beta, last_cwnd_reduction_time,
                   conditions, now>>

reset ==
    /\ reset_body
    /\ UNCHANGED <<rtt, timeout, algorithm, cubic_beta,
                   last_cwnd_reduction_time, conditions, now>>

\* set_algorithm switching the algorithm without the reset.
set_algorithm_keeping_session(algo) ==
    /\ algorithm' = algo
    /\ UNCHANGED <<cwnd, ssthresh, rtt, timeout, duplicate_ack_count,
                   in_slow_start, current_state, histories, cubic_beta,
                   last_cwnd_reduction_time, conditions, now>>

set_algorithm(algo) ==
    /\ algorithm' = algo
    /\ reset_body
    /\ UNCHANGED <<rtt, timeout, cubic_beta, last_cwnd_reduction_time,
                   conditions, now>>

\* ------------------------------------------------------------------ clock
\* std::chrono::steady_clock advances between two operations.
Tick ==
    /\ now < MaxTicks * TickMs
    /\ now' = now + TickMs
    /\ UNCHANGED <<cwnd, ssthresh, rtt, timeout, duplicate_ack_count,
                   in_slow_start, algorithm, current_state, histories,
                   cubic_beta, last_cwnd_reduction_time, conditions>>

\* ------------------------------------- the single-algorithm TCPTahoe class
BasicInit ==
    /\ basic_cwnd = 1
    /\ basic_ssthresh = 65535
    /\ basic_rtt = 100
    /\ basic_timeout = 200
    /\ basic_in_slow_start = TRUE
    /\ basic_cwnd_history = <<>>
    /\ basic_ssthresh_history = <<>>
    /\ basic_state_history = <<>>

\* What every operation of the class leaves alone.
basic_timing == <<basic_rtt, basic_timeout>>

\* basic_send_packet leaving slow start only once cwnd exceeds ssthresh.
basic_send_packet_strict ==
    /\ basic_cwnd_history' = Append(basic_cwnd_history, basic_cwnd)
    /\ basic_ssthresh_history' = Append(basic_ssthresh_history, basic_ssthresh)
    /\ IF basic_in_slow_start
       THEN /\ basic_cwnd' = basic_cwnd * 2
            /\ IF basic_cwnd * 2 > basic_ssthresh
               THEN /\ basic_in_slow_start' = FALSE
                    /\ basic_state_history' =
                           Append(basic_state_history, "Congestion Avoidance")
               ELSE /\ basic_in_slow_start' = TRUE
                    /\ basic_state_history' =
                           Append(basic_state_history, "Slow Start")
       ELSE /\ basic_state_history' =
                   Append(basic_state_history, "Congestion Avoidance")
            /\ basic_cwnd' = basic_cwnd + 1
            /\ UNCHANGED basic_in_slow_start
    /\ UNCHANGED <<basic_ssthresh, basic_timing>>

basic_send_packet ==
    /\ basic_cwnd_history' = Append(basic_cwnd_history, basic_cwnd)
    /\ basic_ssthresh_history' = Append(basic_ssthresh_history, basic_ssthresh)
    /\ IF basic_in_slow_start
       THEN /\ basic_cwnd' = basic_cwnd * 2
            /\ IF basic_cwnd * 2 >= basic_ssthresh
               THEN /\ basic_in_slow_start' = FALSE
                    /\ basic_state_history' =
                           Append(basic_state_history, "Congestion Avoidance")
               ELSE /\ basic_in_slow_start' = TRUE
                    /\ basic_state_history' =
                           Append(basic_state_history, "Slow Start")
       ELSE /\ basic_state_history' =
                   Append(basic_state_history, "Congestion Avoidance")
            /\ basic_cwnd' = basic_cwnd + 1
            /\ UNCHANGED basic_in_slow_start
    /\ UNCHANGED <<basic_ssthresh, basic_timing>>

basic_timeout_event ==
    /\ basic_cwnd_history' = Append(basic_cwnd_history, basic_cwnd)
    /\ basic_ssthresh_history' = Append(basic_ssthresh_history, basic_ssthresh)
    /\ basic_state_history' = Append(basic_state_history, "Timeout")
    /\ basic_ssthresh' = basic_cwnd \div 2
    /\ basic_cwnd' = 1
    /\ basic_in_slow_start' = TRUE
    /\ UNCHANGED basic_timing

basic_duplicate_ack ==
    /\ basic_cwnd_history' = Append(basic_cwnd_history, basic_cwnd)
    /\ basic_ssthresh_history' = Append(basic_ssthresh_history, basic_ssthresh)
    /\ basic_state_history' = Append(basic_state_history, "Fast Retransmit")
    /\ basic_ssthresh' = basic_cwnd \div 2
    /\ basic_cwnd' = 1
    /\ basic_in_slow_start' = TRUE
    /\ UNCHANGED basic_timing

basic_reset ==
    /\ basic_cwnd' = 1
    /\ basic_ssthresh' = 65535
    /\ basic_rtt' = 100
    /\ basic_timeout' = 200
    /\ basic_in_slow_start' = TRUE
    /\ basic_cwnd_history' = <<>>
    /\ basic_ssthresh_history' = <<>>
    /\ basic_state_history' = <<>>

\* ------------------------------------------------------------ StopAndWait
\* One clock tick of SpecStopAndWait, in milliseconds: two of them exceed
\* timeout_ms.
SawTickMs == 600
\* Arguments given to send_packet and to receive_ack.
PacketData == {"a", "b"}
ReceivedAcks == {0, 1, 2}

StopAndWaitInit ==
    /\ sequence_number = 0
    /\ ack_number = 0
    /\ waiting_for_ack = FALSE
    /\ packet_history = <<>>
    /\ ack_history = <<>>
    /\ saw_rtt_history = <<>>
    /\ last_send_time = 0
    /\ timeout_ms = 1000
    /\ total_packets_sent = 0
    /\ total_packets_acked = 0
    /\ total_timeouts = 0
    /\ returned = "none"
    /\ halted = FALSE

\* Members no method writes after construction.
saw_fixed == <<ack_number, timeout_ms>>

StopAndWait_send_packet(data) ==
    /\ ~halted
    /\ IF waiting_for_ack
       THEN /\ returned' = "false"
            /\ UNCHANGED <<packet_history, ack_history, waiting_for_ack,
                           last_send_time, total_packets_sent>>
       ELSE /\ packet_history' = Append(packet_history, data)
            /\ ack_history' = Append(ack_history, FALSE)
            /\ waiting_for_ack' = TRUE
            /\ last_send_time' = now
            /\ total_packets_sent' = total_packets_sent + 1
            /\ returned' = "true"
    /\ UNCHANGED <<sequence_number, saw_rtt_history, total_packets_acked,
                   total_timeouts, halted, saw_fixed>>

\* The statements of receive_ack around ack_history.back() = true, for an
\* acknowledgement that matches.
accept_ack ==
    /\ saw_rtt_history' = Append(saw_rtt_history, now - last_send_time)
    /\ waiting_for_ack' = FALSE
    /\ sequence_number' = (sequence_number + 1) % 2
    /\ total_packets_acked' = total_packets_acked + 1
    /\ returned' = "true"

StopAndWait_receive_ack(received_ack) ==
    /\ ~halted
    /\ IF ~waiting_for_ack \/ received_ack # sequence_number
       THEN /\ returned' = "false"
            /\ UNCHANGED <<saw_rtt_history, ack_history, waiting_for_ack,
                           sequence_number, total_packets_acked, halted>>
       ELSE IF ack_history # <<>>
       THEN /\ accept_ack
            /\ ack_history' =
                   [ack_history EXCEPT ![Len(ack_history)] = TRUE]
            /\ UNCHANGED halted
       \* back() of an empty vector is undefined: the write ends the process,
       \* or lands outside the vector and the method carries on.
       ELSE \/ /\ halted' = TRUE
               /\ saw_rtt_history' =
                      Append(saw_rtt_history, now - last_send_time)
               /\ UNCHANGED <<ack_history, waiting_for_ack, sequence_number,
                              total_packets_acked, returned>>
            \/ /\ accept_ack
               /\ UNCHANGED <<ack_history, halted>>
    /\ UNCHANGED <<packet_history, last_send_time, total_packets_sent,
                   total_timeouts, saw_fixed>>

check_timeout ==
    /\ ~halted
    /\ IF waiting_for_ack /\ now - last_send_time > timeout_ms
       THEN /\ total_timeouts' = total_timeouts + 1
            /\ waiting_for_ack' = FALSE
            /\ returned' = "true"
       ELSE /\ returned' = "false"
            /\ UNCHANGED <<total_timeouts, waiting_for_ack>>
    /\ UNCHANGED <<sequence_number, packet_history, ack_history,
                   saw_rtt_history, last_send_time, total_packets_sent,
                   total_packets_acked, halted, saw_fixed>>

retransmit ==
    /\ ~halted
    /\ IF ~waiting_for_ack
       THEN waiting_for_ack' = TRUE /\ last_send_time' = now
       ELSE UNCHANGED <<waiting_for_ack, last_send_time>>
    /\ returned' = "void"
    /\ UNCHANGED <<sequence_number, packet_history, ack_history,
                   saw_rtt_history, total_packets_sent, total_packets_acked,
                   total_timeouts, halted, saw_fixed>>

\* ---------------------------------------------------- CrossLayerOptimizer
\* A std::map<std::string, double> is the set of its <<key, value>> pairs.
\* signal_strength is in dBm; interference, error_rate and
\* correction_strength are in thousandths; congestion and congestion_level
\* are in hundredths, as network_utilization is.
LayerTypes == {"PHYSICAL", "DATA_LINK", "NETWORK", "TRANSPORT", "APPLICATION"}
CrossLayerEvents == {"SIGNAL_STRENGTH_CHANGE", "HANDOVER_INITIATION",
                     "CONGESTION_DETECTED", "ERROR_RATE_CHANGE",
                     "BANDWIDTH_CHANGE", "LATENCY_CHANGE"}

\* m.count(key)
Count(m, key) == \E e \in m : e[1] = key
\* m.at(key), for a key of m
ValueAt(m, key) == (CHOOSE e \in m : e[1] = key)[2]
\* m.count(key) ? m.at(key) : default
ValueOr(m, key, default) == IF Count(m, key) THEN ValueAt(m, key) ELSE default

\* A CrossLayerMessage: the members the optimizer reads.
Message(event, parameters) == [event |-> event, parameters |-> parameters]

\* Messages given to send_cross_layer_message by its callers.
SentMessages ==
    {Message("SIGNAL_STRENGTH_CHANGE", {<<"signal_strength", -95>>}),
     Message("SIGNAL_STRENGTH_CHANGE", {<<"signal_strength", -80>>}),
     Message("SIGNAL_STRENGTH_CHANGE", {}),
     Message("HANDOVER_INITIATION", {}),
     Message("CONGESTION_DETECTED", {<<"congestion_level", 90>>}),
     Message("ERROR_RATE_CHANGE", {<<"error_rate", 60>>}),
     Message("ERROR_RATE_CHANGE", {<<"error_rate", 200>>}),
     Message("BANDWIDTH_CHANGE", {}),
     Message("LATENCY_CHANGE", {})}

\* Arguments given to update_layer_state: <<layer, metrics of the info>>.
LayerUpdates ==
    {<<"PHYSICAL", {<<"signal_strength", -95>>, <<"error_rate", 60>>}>>,
     <<"PHYSICAL", {<<"signal_strength", -95>>, <<"error_rate", 200>>}>>,
     <<"PHYSICAL", {<<"signal_strength", -60>>, <<"interference", 10>>}>>,
     <<"TRANSPORT", {<<"congestion", 90>>}>>,
     <<"NETWORK", {<<"congestion", 90>>}>>}

OptimizerInit ==
    /\ adaptive_optimization_enabled = TRUE
    /\ tcp_layer = FALSE
    /\ lte_network = FALSE
    /\ layer_states = [layer \in LayerTypes |-> {}]
    /\ message_history = <<>>
    /\ call_stack = <<>>
    /\ thrown = FALSE
    /\ stack_overflow = FALSE

\* Members no handler of a message writes.
optimizer_fixed == <<adaptive_optimization_enabled, tcp_layer, lte_network,
                     layer_states>>

\* A call that has not returned: its function, the place it has reached, and
\* the message it was given (adapt_to_network_conditions takes none).
Frame(fn, pc, message) == [fn |-> fn, pc |-> pc, message |-> message]
NoMessage == Message("", {})
Top == call_stack[Len(call_stack)]
Callers == SubSeq(call_stack, 1, Len(call_stack) - 1)
Running(fn, pc) ==
    /\ ~stack_overflow
    /\ call_stack # <<>>
    /\ Top.fn = fn
    /\ Top.pc = pc

\* The running call goes on to pc.
Continue(pc) ==
    /\ call_stack' = Append(Callers, [Top EXCEPT !.pc = pc])
    /\ UNCHANGED <<thrown, stack_overflow>>
\* The running call calls fn and will go on at pc; the stack holds MaxStack
\* calls and the process ends with one more.
Call(pc, fn, message) ==
    /\ IF Len(call_stack) < MaxStack
       THEN /\ call_stack' = Append(Append(Callers, [Top EXCEPT !.pc = pc]),
                                    Frame(fn, "enter", message))
            /\ UNCHANGED stack_overflow
       ELSE /\ stack_overflow' = TRUE
            /\ UNCHANGED call_stack
    /\ UNCHANGED thrown
Return ==
    /\ call_stack' = Callers
    /\ UNCHANGED <<thrown, stack_overflow>>
\* std::out_of_range leaves every call: none of them catches it.
Throw ==
    /\ call_stack' = <<>>
    /\ thrown' = TRUE
    /\ UNCHANGED stack_overflow

handle_signal_strength_change(new_strength) ==
    /\ IF new_strength < -90 /\ lte_network
       THEN Call("notify", "send_cross_layer_message",
                 Message("HANDOVER_INITIATION",
                         {<<"trigger_rsrp", new_strength>>}))
       ELSE Continue("notify")
    /\ UNCHANGED vars

handle_handover_event ==
    /\ IF tcp_layer THEN set_algorithm("TAHOE") ELSE UNCHANGED vars
    /\ Continue("notify")

handle_congestion_event(congestion_level) ==
    /\ IF tcp_layer /\ congestion_level > 50
       THEN set_network_conditions(50, congestion_level, 100)
       ELSE UNCHANGED vars
    /\ Continue("notify")

handle_error_rate_change(new_error_rate) ==
    /\ IF new_error_rate > 100
       THEN Call("notify", "send_cross_layer_message",
                 Message("ERROR_RATE_CHANGE",
                         {<<"error_rate", new_error_rate>>}))
       ELSE Continue("notify")
    /\ UNCHANGED vars

\* send_cross_layer_message up to the return of the handler of the message.
send_cross_layer_message ==
    /\ Running("send_cross_layer_message", "enter")
    /\ message_history' = Append(message_history, Top.message)
    /\ LET event == Top.message.event
           parameters == Top.message.parameters
       IN  CASE event = "SIGNAL_STRENGTH_CHANGE" ->
                    IF Count(parameters, "signal_strength")
                    THEN handle_signal_strength_change(
                             ValueAt(parameters, "signal_strength"))
                    ELSE Throw /\ UNCHANGED vars
             [] event = "HANDOVER_INITIATION" -> handle_handover_event
             [] event = "CONGESTION_DETECTED" ->
                    IF Count(parameters, "congestion_level")
                    THEN handle_congestion_event(
                             ValueAt(parameters, "congestion_level"))
                    ELSE Throw /\ UNCHANGED vars
             [] event = "ERROR_RATE_CHANGE" ->
                    IF Count(parameters, "error_rate")
                    THEN handle_error_rate_change(
                             ValueAt(parameters, "error_rate"))
                    ELSE Throw /\ UNCHANGED vars
             [] event \in {"BANDWIDTH_CHANGE", "LATENCY_CHANGE"} ->
                    /\ Call("notify", "adapt_to_network_conditions",
                            NoMessage)
                    /\ UNCHANGED vars
    /\ UNCHANGED optimizer_fixed

\* The rest of send_cross_layer_message: the loop over event_handlers, with
\* no handler registered.
notify_event_handlers ==
    /\ Running("send_cross_layer_message", "notify")
    /\ Return
    /\ UNCHANGED <<vars, message_history, optimizer_fixed>>

optimize_error_correction ==
    LET error_rate == ValueOr(layer_states["PHYSICAL"], "error_rate", 10)
    IN  IF error_rate > 50
        THEN Call("reduce", "send_cross_layer_message",
                  Message("ERROR_RATE_CHANGE",
                          {<<"error_rate", error_rate>>,
                           <<"correction_strength", 1500>>}))
        ELSE Continue("reduce")

\* adapt_to_network_conditions, from one of its calls to the next.
adapt_to_network_conditions ==
    /\ ~stack_overflow
    /\ call_stack # <<>>
    /\ Top.fn = "adapt_to_network_conditions"
    /\ LET physical_info == layer_states["PHYSICAL"]
           transport_info == layer_states["TRANSPORT"]
           signal_strength == ValueOr(physical_info, "signal_strength", -80)
           interference == ValueOr(physical_info, "interference", 100)
           congestion_level == ValueOr(transport_info, "congestion", 0)
       IN  CASE Top.pc = "enter" ->
                    IF ~adaptive_optimization_enabled
                    THEN Return /\ UNCHANGED vars
                    ELSE IF signal_strength < -90
                    THEN optimize_error_correction /\ UNCHANGED vars
                    ELSE IF signal_strength > -70 /\ interference < 50
                    THEN /\ IF tcp_layer THEN set_algorithm("BBR")
                            ELSE UNCHANGED vars
                         /\ Continue("congestion")
                    ELSE Continue("congestion") /\ UNCHANGED vars
             [] Top.pc = "reduce" ->
                    /\ IF tcp_layer THEN set_algorithm("TAHOE")
                       ELSE UNCHANGED vars
                    /\ Continue("congestion")
             [] Top.pc = "congestion" ->
                    /\ IF congestion_level > 70
                       THEN Call("return", "send_cross_layer_message",
                                 Message("CONGESTION_DETECTED",
                                         {<<"congestion_level",
                                            congestion_level>>}))
                       ELSE Return
                    /\ UNCHANGED vars
             [] Top.pc = "return" -> Return /\ UNCHANGED vars
    /\ UNCHANGED <<message_history, optimizer_fixed>>

\* A caller outside the optimizer calls send_cross_layer_message(message).
caller_sends(message) ==
    /\ ~stack_overflow
    /\ call_stack = <<>>
    /\ call_stack' = <<Frame("send_cross_layer_message", "enter", message)>>
    /\ thrown' = FALSE
    /\ UNCHANGED <<vars, message_history, optimizer_fixed, stack_overflow>>

update_layer_state(layer, metrics) ==
    /\ ~stack_overflow
    /\ call_stack = <<>>
    /\ layer_states' = [layer_states EXCEPT ![layer] = metrics]
    /\ call_stack' =
           IF adaptive_optimization_enabled
           THEN <<Frame("adapt_to_network_conditions", "enter", NoMessage)>>
           ELSE <<>>
    /\ thrown' = FALSE
    /\ UNCHANGED <<vars, adaptive_optimization_enabled, tcp_layer,
                   lte_network, message_history, stack_overflow>>

register_layer(layer) ==
    /\ ~stack_overflow
    /\ call_stack = <<>>
    /\ tcp_layer' = (tcp_layer \/ layer = "TRANSPORT")
    /\ lte_network' = (lte_network \/ layer = "PHYSICAL")
    /\ thrown' = FALSE
    /\ UNCHANGED <<vars, adaptive_optimization_enabled, layer_states,
                   message_history, call_stack, stack_overflow>>

enable_adaptive_optimization(enable) ==
    /\ ~stack_overflow
    /\ call_stack = <<>>
    /\ adaptive_optimization_enabled' = enable
    /\ thrown' = FALSE
    /\ UNCHANGED <<vars, tcp_layer, lte_network, layer_states,
                   message_history, call_stack, stack_overflow>>

CrossLayerOptimizer_reset ==
    /\ ~stack_overflow
    /\ call_stack = <<>>
    /\ message_history' = <<>>
    /\ layer_states' = [layer \in LayerTypes |-> {}]
    /\ thrown' = FALSE
    /\ UNCHANGED <<vars, adaptive_optimization_enabled, tcp_layer,
                   lte_network, call_stack, stack_overflow>>

clear_history ==
    /\ ~stack_overflow
    /\ call_stack = <<>>
    /\ message_history' = <<>>
    /\ thrown' = FALSE
    /\ UNCHANGED <<vars, optimizer_fixed, call_stack, stack_overflow>>

\* The objects other than the session, as constructed.
OtherObjectsInit == BasicInit /\ StopAndWaitInit /\ OptimizerInit

\* Every object as constructed: the session under any algorithm at any
\* time of the clock; the session at the origin of the clock; the session
\* under TAHOE at the origin of the clock.
ProgramInit == Init /\ OtherObjectsInit
TimingInit == Init /\ now = 0 /\ OtherObjectsInit
TahoeProgramInit ==
    Init /\ algorithm = "TAHOE" /\ now = 0 /\ OtherObjectsInit

\* --------------------------------------------------------- specifications
LossLabels == {"Timeout", "CUBIC Timeout", "BBR Timeout", "Fast Retransmit",
               "CUBIC Fast Retransmit", "BBR Fast Retransmit"}
LossCount == Cardinality({i \in DOMAIN state_history :
                              state_history[i] \in LossLabels})

\* Spec: every public operation, on short histories.
SendPacket ==
    /\ Len(cwnd_history) < MaxHist
    /\ send_packet
    /\ UNCHANGED other_objects
TimeoutEvent ==
    /\ Len(cwnd_history) < MaxHist
    /\ timeout_event
    /\ UNCHANGED other_objects
DuplicateAck ==
    /\ Len(cwnd_history) < MaxHist
    /\ duplicate_ack
    /\ UNCHANGED other_objects
ReceiveAck ==
    /\ \E ack_num \in AckNumbers : receive_ack(ack_num)
    /\ UNCHANGED other_objects
SetNetworkConditions ==
    /\ \E c \in ConditionInputs : set_network_conditions(c[1], c[2], c[3])
    /\ UNCHANGED other_objects
SimulateNetworkCongestion ==
    \E draw \in Draws :
        /\ draw < packet_loss_rate => Len(cwnd_history) < MaxHist
        /\ network_utilization > 70 => InflatedRtt <= MaxRtt
        /\ simulate_network_congestion(draw)
        /\ UNCHANGED other_objects
SetAlgorithm ==
    /\ \E algo \in Algorithms : set_algorithm(algo)
    /\ UNCHANGED other_objects
Reset == reset /\ UNCHANGED other_objects
ClockTick == Tick /\ UNCHANGED other_objects

Next ==
    \/ SendPacket
    \/ TimeoutEvent
    \/ DuplicateAck
    \/ ReceiveAck
    \/ SetNetworkConditions
    \/ SimulateNetworkCongestion
    \/ SetAlgorithm
    \/ Reset
    \/ ClockTick

Spec == ProgramInit /\ [][Next]_vars

\* SpecCore: the four stimuli of one session and its network conditions, on
\* long histories; the clock stands still.
CoreConditionInputs == {<<0, 0, 0>>, <<60, 80, 10>>}
CoreSendPacket ==
    /\ Len(cwnd_history) < MaxCoreHist
    /\ send_packet
    /\ UNCHANGED other_objects
CoreTimeoutEvent ==
    /\ Len(cwnd_history) < MaxCoreHist
    /\ LossCount < MaxLoss
    /\ timeout_event
    /\ UNCHANGED other_objects
CoreDuplicateAck ==
    /\ Len(cwnd_history) < MaxCoreHist
    /\ LossCount < MaxLoss
    /\ duplicate_ack
    /\ UNCHANGED other_objects
CoreReceiveAck ==
    /\ \E ack_num \in AckNumbers : receive_ack(ack_num)
    /\ UNCHANGED other_objects
CoreSetNetworkConditions ==
    /\ \E c \in CoreConditionInputs : set_network_conditions(c[1], c[2], c[3])
    /\ UNCHANGED other_objects

NextCore ==
    \/ CoreSendPacket
    \/ CoreTimeoutEvent
    \/ CoreDuplicateAck
    \/ CoreReceiveAck
    \/ CoreSetNetworkConditions

SpecCore == ProgramInit /\ [][NextCore]_vars

\* SpecBasic: the single-algorithm class alone, every operation.
BasicSendPacket ==
    /\ Len(basic_cwnd_history) < MaxBasicHist
    /\ basic_send_packet
    /\ UNCHANGED <<vars, saw_vars, optimizer_vars>>
BasicTimeoutEvent ==
    /\ Len(basic_cwnd_history) < MaxBasicHist
    /\ basic_timeout_event
    /\ UNCHANGED <<vars, saw_vars, optimizer_vars>>
BasicDuplicateAck ==
    /\ Len(basic_cwnd_history) < MaxBasicHist
    /\ basic_duplicate_ack
    /\ UNCHANGED <<vars, saw_vars, optimizer_vars>>
BasicReset == basic_reset /\ UNCHANGED <<vars, saw_vars, optimizer_vars>>

NextBasic ==
    \/ BasicSendPacket
    \/ BasicTimeoutEvent
    \/ BasicDuplicateAck
    \/ BasicReset

SpecBasic == TahoeProgramInit /\ [][NextBasic]_basic_vars

\* SpecPair: a session under TAHOE and an object of the single-algorithm
\* class, both as constructed, given the same send_packet and timeout_event
\* calls.
PairSendPacket ==
    /\ Len(cwnd_history) < MaxPairHist
    /\ send_packet
    /\ basic_send_packet
    /\ UNCHANGED <<saw_vars, optimizer_vars>>
PairTimeoutEvent ==
    /\ Len(cwnd_history) < MaxPairHist
    /\ timeout_event
    /\ basic_timeout_event
    /\ UNCHANGED <<saw_vars, optimizer_vars>>

NextPair ==
    \/ PairSendPacket
    \/ PairTimeoutEvent

SpecPair ==
    TahoeProgramInit /\ [][NextPair]_<<vars, basic_vars>>

\* SpecStopAndWait: one StopAndWait object, every operation, and the steady
\* clock it reads.
session_frozen == <<cwnd, ssthresh, rtt, timeout, duplicate_ack_count,
                    in_slow_start, algorithm, current_state, histories,
                    cubic_beta, last_cwnd_reduction_time, conditions>>
SawSendPacket ==
    /\ ~waiting_for_ack => Len(packet_history) < MaxPackets
    /\ \E data \in PacketData : StopAndWait_send_packet(data)
    /\ UNCHANGED <<session_frozen, now, basic_vars, optimizer_vars>>
SawReceiveAck ==
    /\ \E received_ack \in ReceivedAcks :
           /\ (waiting_for_ack /\ received_ack = sequence_number) =>
                  Len(saw_rtt_history) < MaxAcks
           /\ StopAndWait_receive_ack(received_ack)
    /\ UNCHANGED <<session_frozen, now, basic_vars, optimizer_vars>>
SawCheckTimeout ==
    /\ check_timeout
    /\ UNCHANGED <<session_frozen, now, basic_vars, optimizer_vars>>
SawRetransmit ==
    /\ retransmit
    /\ UNCHANGED <<session_frozen, now, basic_vars, optimizer_vars>>
SawTick ==
    /\ now < MaxSawTicks * SawTickMs
    /\ now' = now + SawTickMs
    /\ UNCHANGED <<session_frozen, basic_vars, saw_vars, optimizer_vars>>

NextStopAndWait ==
    \/ SawSendPacket
    \/ SawReceiveAck
    \/ SawCheckTimeout
    \/ SawRetransmit
    \/ SawTick

SpecStopAndWait ==
    TahoeProgramInit /\ [][NextStopAndWait]_<<saw_vars, now>>

\* SpecCrossLayer: one CrossLayerOptimizer and the session it may have as
\* its transport layer; every call of the optimizer runs to its end before
\* the next one is made.
CrossLayerSend ==
    /\ Len(message_history) < MaxMessages
    /\ \E message \in SentMessages : caller_sends(message)
    /\ UNCHANGED <<basic_vars, saw_vars>>
CrossLayerUpdateLayerState ==
    /\ Len(message_history) < MaxMessages
    /\ \E update \in LayerUpdates : update_layer_state(update[1], update[2])
    /\ UNCHANGED <<basic_vars, saw_vars>>
CrossLayerRegisterLayer ==
    /\ \E layer \in LayerTypes : register_layer(layer)
    /\ UNCHANGED <<basic_vars, saw_vars>>
CrossLayerEnableAdaptiveOptimization ==
    /\ \E enable \in BOOLEAN : enable_adaptive_optimization(enable)
    /\ UNCHANGED <<basic_vars, saw_vars>>
CrossLayerReset ==
    CrossLayerOptimizer_reset /\ UNCHANGED <<basic_vars, saw_vars>>
CrossLayerClearHistory ==
    clear_history /\ UNCHANGED <<basic_vars, saw_vars>>
CrossLayerHandleMessage ==
    send_cross_layer_message /\ UNCHANGED <<basic_vars, saw_vars>>
CrossLayerNotify ==
    notify_event_handlers /\ UNCHANGED <<basic_vars, saw_vars>>
CrossLayerAdapt ==
    adapt_to_network_conditions /\ UNCHANGED <<basic_vars, saw_vars>>

NextCrossLayer ==
    \/ CrossLayerSend
    \/ CrossLayerUpdateLayerState
    \/ CrossLayerRegisterLayer
    \/ CrossLayerEnableAdaptiveOptimization
    \/ CrossLayerReset
    \/ CrossLayerClearHistory
    \/ CrossLayerHandleMessage
    \/ CrossLayerNotify
    \/ CrossLayerAdapt

SpecCrossLayer ==
    TahoeProgramInit /\ [][NextCrossLayer]_<<vars, optimizer_vars>>

\* SpecTiming: the round-trip timing of one session.  rtt is inflated as
\* often as simulate_network_congestion is called, sends record it.
TimingSetNetworkConditions ==
    /\ \E c \in CoreConditionInputs : set_network_conditions(c[1], c[2], c[3])
    /\ UNCHANGED other_objects
TimingSimulateNetworkCongestion ==
    \E draw \in Draws :
        /\ draw < packet_loss_rate => Len(cwnd_history) < MaxTimingHist
        /\ simulate_network_congestion(draw)
        /\ UNCHANGED other_objects
TimingSendPacket ==
    /\ Len(cwnd_history) < MaxTimingHist
    /\ send_packet
    /\ UNCHANGED other_objects
TimingReset == reset /\ UNCHANGED other_objects

NextTiming ==
    \/ TimingSetNetworkConditions
    \/ TimingSimulateNetworkCongestion
    \/ TimingSendPacket
    \/ TimingReset

SpecTiming == TimingInit /\ [][NextTiming]_vars

\* ------------------------------------------------------------------ claims
SendLabels == {"Slow Start", "Congestion Avoidance", "Fast Recovery",
               "CUBIC Slow Start", "CUBIC Congestion Avoidance", "BBR"}
SlowStartLabels == {"Slow Start", "CUBIC Slow Start"}
HistLen == Len(cwnd_history)

\* C1: in every reachable state of the four-algorithm session, whatever
\* operations led to it, cwnd >= 1 and ssthresh >= 1.
C1_WindowFloors == cwnd >= 1 /\ ssthresh >= 1

\* A loss event taken at cwnd = 1, where only the clamp keeps ssthresh at 1.
C1_Witness ==
    /\ HistLen >= 1
    /\ state_history[HistLen] \in LossLabels
    /\ algorithm # "BBR"
    /\ cwnd_history[HistLen] = 1
    /\ ssthresh = 1
    /\ cwnd = 1

\* The last four history entries are sends, the first of them made in slow
\* start at cwnd = 1 and ssthresh = 8, under TAHOE, RENO or CUBIC.
FourSendsFromOneAndEight ==
    /\ algorithm \in {"TAHOE", "RENO", "CUBIC"}
    /\ HistLen >= 4
    /\ \A i \in (HistLen - 3)..HistLen : state_history[i] \in SendLabels
    /\ state_history[HistLen - 3] \in SlowStartLabels
    /\ cwnd_history[HistLen - 3] = 1
    /\ ssthresh_history[HistLen - 3] = 8

\* The cwnd values 2, 4, 8 after the first three of the four sends, the
\* second and third made in slow start and the fourth in congestion avoidance.
DoublesToEight ==
    /\ cwnd_history[HistLen - 2] = 2
    /\ cwnd_history[HistLen - 1] = 4
    /\ cwnd_history[HistLen] = 8
    /\ state_history[HistLen - 2] \in SlowStartLabels
    /\ state_history[HistLen - 1] \in SlowStartLabels
    /\ state_history[HistLen] \notin SlowStartLabels
    /\ current_state = "CONGESTION_AVOIDANCE"

C3_TimeoutReduction ==
    [][(algorithm \in {"TAHOE", "RENO"} /\ timeout_event) =>
          /\ ssthresh' = (IF cwnd \div 2 >= 1 THEN cwnd \div 2 ELSE 1)
          /\ cwnd' = 1
          /\ current_state' = "SLOW_START"
          /\ duplicate_ack_count' = 0]_vars

\* A timeout taken at cwnd = 16.
C3_Witness ==
    /\ algorithm \in {"TAHOE", "RENO"}
    /\ HistLen >= 1
    /\ state_history[HistLen] = "Timeout"
    /\ cwnd_history[HistLen] = 16
    /\ ssthresh = 8
    /\ cwnd = 1
    /\ current_state = "SLOW_START"

\* C4: under RENO the third duplicate_ack sets ssthresh to the larger of
\* floor(cwnd / 2) and 1, cwnd to ssthresh + 3 and the phase to fast recovery;
\* sends made in fast recovery keep the phase and ssthresh, and a receive_ack
\* made in fast recovery sets cwnd to ssthresh and the phase to congestion
\* avoidance.
C4_FastRecovery ==
    [][/\ (algorithm = "RENO" /\ duplicate_ack_count = 2 /\ duplicate_ack) =>
             /\ ssthresh' = (IF cwnd \div 2 >= 1 THEN cwnd \div 2 ELSE 1)
             /\ cwnd' = ssthresh' + 3
             /\ current_state' = "FAST_RECOVERY"
       /\ (algorithm = "RENO" /\ current_state = "FAST_RECOVERY"
              /\ send_packet) =>
             /\ current_state' = "FAST_RECOVERY"
             /\ ssthresh' = ssthresh
       /\ (algorithm = "RENO" /\ current_state = "FAST_RECOVERY"
              /\ \E n \in AckNumbers : receive_ack(n)) =>
             /\ cwnd' = ssthresh
             /\ current_state' = "CONGESTION_AVOIDANCE"]_vars

\* A fast retransmit at cwnd = 16 (ssthresh 8, cwnd 11), a send in fast
\* recovery, then a receive_ack: cwnd = 8 in congestion avoidance.
C4_Witness ==
    /\ algorithm = "RENO"
    /\ HistLen >= 2
    /\ state_history[HistLen - 1] = "Fast Retransmit"
    /\ cwnd_history[HistLen - 1] = 16
    /\ state_history[HistLen] = "Fast Recovery"
    /\ cwnd_history[HistLen] = 11
    /\ ssthresh_history[HistLen] = 8
    /\ current_state = "CONGESTION_AVOIDANCE"
    /\ cwnd = 8
    /\ ssthresh = 8

\* C5: under CUBIC, timeout_event sets ssthresh to the larger of
\* floor(cwnd * cubic_beta) and 1, with the cubic_beta of that moment, cwnd
\* to 1 and the phase to slow start.
C5_Original ==
    [][(algorithm = "CUBIC" /\ timeout_event) =>
          /\ ssthresh' = (IF (cubic_beta * cwnd) \div 10 >= 1
                          THEN (cubic_beta * cwnd) \div 10
                          ELSE 1)
          /\ cwnd' = 1
          /\ current_state' = "SLOW_START"]_vars

\* What the code computes instead: the double product cwnd * cubic_beta,
\* truncated, which for cubic_beta = 0.7 is one below floor(0.7 * cwnd) at
\* cwnd = 90, 170, 180, ...
C5_AsComputed ==
    [][(algorithm = "CUBIC" /\ timeout_event) =>
          /\ ssthresh' =
                (IF cubic_beta = 7 /\ RoundsBelow(cwnd)
                 THEN (7 * cwnd) \div 10 - 1
                 ELSE IF (cubic_beta * cwnd) \div 10 >= 1
                 THEN (cubic_beta * cwnd) \div 10
                 ELSE 1)
          /\ cwnd' = 1
          /\ current_state' = "SLOW_START"]_vars

\* A CUBIC timeout taken at cwnd = 10 with cubic_beta = 0.7: ssthresh = 7.
C5_Witness ==
    /\ algorithm = "CUBIC"
    /\ HistLen >= 1
    /\ state_history[HistLen] = "CUBIC Timeout"
    /\ cwnd_history[HistLen] = 10
    /\ cubic_beta = 7
    /\ ssthresh = 7
    /\ cwnd = 1
    /\ current_state = "SLOW_START"

\* C6: under BBR no duplicate_ack, the threshold-reaching ones included,
\* changes cwnd, ssthresh or the phase.
C6_BbrIgnoresDuplicates ==
    [][(algorithm = "BBR" /\ duplicate_ack) =>
          UNCHANGED <<cwnd, ssthresh, current_state>>]_vars

\* A BBR fast retransmit after a send, with the window state it found.
C6_Witness ==
    /\ algorithm = "BBR"
    /\ HistLen >= 2
    /\ state_history[HistLen - 1] = "BBR"
    /\ state_history[HistLen] = "BBR Fast Retransmit"
    /\ cwnd = cwnd_history[HistLen]
    /\ ssthresh = ssthresh_history[HistLen]
    /\ current_state = "CONGESTION_AVOIDANCE"
    /\ duplicate_ack_count = 0

ResetOrSetAlgorithm == reset \/ \E a \in Algorithms : set_algorithm(a)

\* C7: set_algorithm (to any algorithm, the active one included) and reset
\* leave cwnd = 1, ssthresh = 65535, the phase slow start,
\* duplicate_ack_count = 0 and the five histories empty.
C7_ResetDefaults ==
    [][ResetOrSetAlgorithm =>
          /\ cwnd' = 1
          /\ ssthresh' = 65535
          /\ current_state' = "SLOW_START"
          /\ duplicate_ack_count' = 0
          /\ cwnd_history' = <<>>
          /\ ssthresh_history' = <<>>
          /\ state_history' = <<>>
          /\ throughput_history' = <<>>
          /\ rtt_history' = <<>>]_vars

\* The defaults, in a session that has sent at an inflated rtt (timeout is
\* 360 only after such a send) and taken a loss (a reduction time is set).
C7_Witness ==
    /\ cwnd = 1
    /\ ssthresh = 65535
    /\ current_state = "SLOW_START"
    /\ duplicate_ack_count = 0
    /\ cwnd_history = <<>>
    /\ rtt_history = <<>>
    /\ timeout = 360
    /\ last_cwnd_reduction_time > 0

\* C8: reset and set_algorithm leave rtt, timeout, packet_loss_rate,
\* network_utilization and queue_delay as they were, and reset leaves the
\* algorithm as it was.
C8_ResetFrame ==
    [][/\ ResetOrSetAlgorithm =>
             UNCHANGED <<rtt, timeout, packet_loss_rate, network_utilization,
                         queue_delay>>
       /\ reset => UNCHANGED algorithm]_vars

\* Empty histories with timing and conditions that are not the defaults.
C8_Witness ==
    /\ cwnd_history = <<>>
    /\ throughput_history = <<>>
    /\ rtt = 180
    /\ timeout = 360
    /\ packet_loss_rate = 60
    /\ network_utilization = 80
    /\ queue_delay = 10

\* C9: a duplicate_ack that does not bring duplicate_ack_count to 3 only
\* increments it: cwnd, ssthresh, the phase, last_cwnd_reduction_time, the
\* histories and every other field keep their values, under every algorithm.
C9_BelowThresholdFrame ==
    [][(duplicate_ack_count + 1 # 3 /\ duplicate_ack) =>
          /\ duplicate_ack_count' = duplicate_ack_count + 1
          /\ UNCHANGED <<cwnd, ssthresh, current_state, in_slow_start,
                         last_cwnd_reduction_time, histories, rtt, timeout,
                         algorithm, cubic_beta, conditions, now>>]_vars

\* Two duplicates counted after a reduction made at an earlier clock value.
C9_Witness ==
    /\ duplicate_ack_count = 2
    /\ HistLen >= 1
    /\ state_history[HistLen] \in LossLabels
    /\ last_cwnd_reduction_time < now

\* C10: duplicate_ack_count is always 0, 1 or 2; send_packet leaves it as it
\* is; a duplicate_ack takes it from 0 to 1, from 1 to 2 and from 2 to 0, and
\* records a fast retransmit exactly when it was 2; timeout_event (also from
\* simulate_network_congestion), receive_ack, reset and set_algorithm set it
\* to 0.
C10_DuplicateCount ==
    /\ [](duplicate_ack_count \in 0..2)
    /\ [][/\ send_packet => UNCHANGED duplicate_ack_count
          /\ duplicate_ack =>
                /\ duplicate_ack_count' = (duplicate_ack_count + 1) % 3
                /\ (duplicate_ack_count = 2) <=>
                       (/\ Len(state_history') = Len(state_history) + 1
                        /\ state_history'[Len(state_history')] \in LossLabels)
          /\ (\/ timeout_event
              \/ \E n \in AckNumbers : receive_ack(n)
              \/ ResetOrSetAlgorithm
              \/ \E d \in Draws : d < packet_loss_rate
                                    /\ simulate_network_congestion(d)) =>
                duplicate_ack_count' = 0]_vars

\* Two duplicates counted in a history that ends with a send made after a
\* fast retransmit: the count restarted at the retransmit and the send kept it.
C10_Witness ==
    /\ duplicate_ack_count = 2
    /\ HistLen >= 2
    /\ state_history[HistLen] \in SendLabels
    /\ state_history[HistLen - 1] \in
           {"Fast Retransmit", "CUBIC Fast Retransmit", "BBR Fast Retransmit"}

\* C11: receive_ack does the same whatever its argument, and unless the
\* phase is fast recovery under RENO it sets duplicate_ack_count to 0 and
\* changes nothing else: cwnd, ssthresh, the phase, the five histories and
\* every other field keep their values.
C11_ReceiveAckFrame ==
    [][/\ (\E n \in AckNumbers : receive_ack(n)) =>
             (\A n \in AckNumbers : receive_ack(n))
       /\ \A n \in AckNumbers :
             (/\ ~(current_state = "FAST_RECOVERY" /\ algorithm = "RENO")
              /\ receive_ack(n)) =>
                /\ duplicate_ack_count' = 0
                /\ UNCHANGED <<cwnd, ssthresh, current_state, in_slow_start,
                               histories, rtt, timeout, algorithm, cubic_beta,
                               last_cwnd_reduction_time, conditions, now>>]_vars

\* A RENO session that a receive_ack took out of fast recovery (the last
\* entry is the fast retransmit, the phase congestion avoidance, cwnd at
\* ssthresh) and that has since counted two duplicates: the
\* receive_ack that comes next finds it outside fast recovery.
C11_Witness ==
    /\ algorithm = "RENO"
    /\ HistLen >= 1
    /\ state_history[HistLen] = "Fast Retransmit"
    /\ current_state = "CONGESTION_AVOIDANCE"
    /\ cwnd = ssthresh
    /\ duplicate_ack_count = 2

\* The operations that record: send_packet, timeout_event (also called from
\* simulate_network_congestion) and the duplicate_ack that reaches 3.
Recording ==
    \/ send_packet
    \/ timeout_event
    \/ duplicate_ack_count = 2 /\ duplicate_ack
    \/ \E d \in Draws : d < packet_loss_rate /\ simulate_network_congestion(d)

\* C12: every send_packet, timeout_event and threshold-reaching duplicate_ack
\* appends to cwnd_history and to ssthresh_history exactly one entry, the
\* cwnd and the ssthresh it found; and but for reset and set_algorithm no
\* operation changes or removes an entry already there.
C12_AppendOnlyLog ==
    [][/\ Recording =>
             /\ cwnd_history' = Append(cwnd_history, cwnd)
             /\ ssthresh_history' = Append(ssthresh_history, ssthresh)
       /\ ~ResetOrSetAlgorithm =>
             /\ Len(cwnd_history') >= Len(cwnd_history)
             /\ Len(ssthresh_history') >= Len(ssthresh_history)
             /\ SubSeq(cwnd_history', 1, Len(cwnd_history)) = cwnd_history
             /\ SubSeq(ssthresh_history', 1, Len(ssthresh_history)) =
                    ssthresh_history]_vars

\* A TAHOE log of a send, a fast retransmit and a timeout, each entry the
\* window that the event found.
C12_Witness ==
    /\ algorithm = "TAHOE"
    /\ state_history = <<"Slow Start", "Fast Retransmit", "Timeout">>
    /\ cwnd_history = <<1, 2, 1>>
    /\ ssthresh_history = <<65535, 65535, 1>>
    /\ cwnd = 1
    /\ ssthresh = 1

\* The number of sends that state_history records.
SendCount == Cardinality({i \in DOMAIN state_history :
                              state_history[i] \in SendLabels})

\* C13: the five histories always have the same length, every recording
\* operation appending one entry to each.
C13_Original ==
    /\ Len(ssthresh_history) = Len(cwnd_history)
    /\ Len(state_history) = Len(cwnd_history)
    /\ Len(throughput_history) = Len(cwnd_history)
    /\ Len(rtt_history) = Len(cwnd_history)

\* What the code keeps instead: cwnd_history, ssthresh_history and
\* state_history have one entry for every recorded event, throughput_history
\* and rtt_history one for every send only.
C13_AsComputed ==
    /\ Len(ssthresh_history) = Len(cwnd_history)
    /\ Len(state_history) = Len(cwnd_history)
    /\ Len(throughput_history) = SendCount
    /\ Len(rtt_history) = SendCount

\* A send and a timeout: two entries in three histories, one in the others.
C13_Witness ==
    /\ state_history = <<"Slow Start", "Timeout">>
    /\ Len(cwnd_history) = 2
    /\ Len(ssthresh_history) = 2
    /\ Len(throughput_history) = 1
    /\ Len(rtt_history) = 1

\* C14: but for reset and set_algorithm, no step changes cwnd, ssthresh or
\* the phase without appending to cwnd_history.
C14_Original ==
    [][(/\ ~ResetOrSetAlgorithm
        /\ <<cwnd, ssthresh, current_state>>' #
               <<cwnd, ssthresh, current_state>>) =>
          Len(cwnd_history') = Len(cwnd_history) + 1]_vars

\* What the code does instead: the receive_ack that leaves fast recovery
\* changes cwnd and the phase and records nothing; it is the only such step.
C14_AsComputed ==
    [][(/\ ~ResetOrSetAlgorithm
        /\ ~(/\ current_state = "FAST_RECOVERY"
              /\ \E n \in AckNumbers : receive_ack(n))
        /\ <<cwnd, ssthresh, current_state>>' #
               <<cwnd, ssthresh, current_state>>) =>
          Len(cwnd_history') = Len(cwnd_history) + 1]_vars

\* RENO after a fast retransmit at cwnd = 2 (ssthresh 1, cwnd 4) and the
\* receive_ack that left fast recovery: cwnd is 1 in congestion avoidance and
\* the log still ends with the fast retransmit.
C14_Witness ==
    /\ algorithm = "RENO"
    /\ HistLen >= 1
    /\ state_history[HistLen] = "Fast Retransmit"
    /\ cwnd_history[HistLen] = 2
    /\ current_state = "CONGESTION_AVOIDANCE"
    /\ ssthresh = 1
    /\ cwnd = 1
    /\ duplicate_ack_count = 0

\* C15: after every send_packet, under every algorithm, timeout is twice rtt
\* (timeout is even and its half is rtt).
C15_Original ==
    [][send_packet => (timeout' % 2 = 0 /\ timeout' \div 2 = rtt')]_vars

\* A send made at an rtt above half of IntMax, which 28 inflations at a
\* utilization of 0.8 reach: the doubling has wrapped to a negative timeout.
C15_Witness ==
    /\ HistLen >= 1
    /\ state_history[HistLen] \in SendLabels
    /\ rtt_history # <<>>
    /\ rtt_history[Len(rtt_history)] = rtt
    /\ rtt > IntMax \div 2
    /\ timeout < 0

\* C16 as stated: after every send_packet, whichever algorithm is active,
\* cubic_beta is 0.8 if packet_loss_rate > 0.05, 0.7 if packet_loss_rate <
\* 0.01, and as before for the loss rates in between.
C16_Original ==
    [][send_packet =>
          /\ packet_loss_rate > 50 => cubic_beta' = 8
          /\ packet_loss_rate < 10 => cubic_beta' = 7
          /\ (packet_loss_rate >= 10 /\ packet_loss_rate <= 50) =>
                cubic_beta' = cubic_beta]_vars

\* C16 as amended: after a send_packet made under CUBIC, cubic_beta is 0.8 if
\* packet_loss_rate > 0.05, 0.7 if packet_loss_rate < 0.01, and as before
\* for the loss rates in between; a send_packet made under TAHOE, RENO or
\* BBR leaves cubic_beta as it was.
C16_AdaptiveTuning ==
    [][send_packet =>
          /\ (algorithm = "CUBIC" /\ packet_loss_rate > 50) => cubic_beta' = 8
          /\ (algorithm = "CUBIC" /\ packet_loss_rate < 10) => cubic_beta' = 7
          /\ (algorithm # "CUBIC"
                 \/ (packet_loss_rate >= 10 /\ packet_loss_rate <= 50)) =>
                cubic_beta' = cubic_beta]_vars

\* A TAHOE session that has sent (the label is TAHOE's), with no loss
\* reported, still holding the 0.8 that an earlier CUBIC send tuned.
C16_Witness ==
    /\ algorithm = "TAHOE"
    /\ HistLen >= 1
    /\ state_history[HistLen] = "Slow Start"
    /\ packet_loss_rate = 0
    /\ cubic_beta = 8

TimeoutLabels == {"Timeout", "CUBIC Timeout", "BBR Timeout"}

\* What one call of timeout_event leaves behind, whatever the algorithm.
OneTimeoutRecorded ==
    /\ cwnd_history' = Append(cwnd_history, cwnd)
    /\ ssthresh_history' = Append(ssthresh_history, ssthresh)
    /\ Len(state_history') = Len(state_history) + 1
    /\ state_history'[Len(state_history')] \in TimeoutLabels
    /\ last_cwnd_reduction_time' = now
    /\ duplicate_ack_count' = 0

\* C17: simulate_network_congestion with the draw d calls timeout_event once
\* if d < packet_loss_rate and not at all otherwise (never at loss rate 0,
\* always at loss rate 1 or more); and rtt becomes
\* floor(rtt * (1 + network_utilization)) if network_utilization > 0.7 and
\* keeps its value otherwise.
C17_Original ==
    [][\A d \in Draws :
          simulate_network_congestion(d) =>
             /\ d < packet_loss_rate => OneTimeoutRecorded
             /\ d >= packet_loss_rate => UNCHANGED LossWrites
             /\ packet_loss_rate = 0 => UNCHANGED LossWrites
             /\ packet_loss_rate >= 1000 => OneTimeoutRecorded
             /\ rtt' = (IF network_utilization > 70
                        THEN (rtt * (100 + network_utilization)) \div 100
                        ELSE rtt)]_vars

\* What the code computes instead: the same, but for the double product
\* rtt * (1.0 + network_utilization), truncated, which at utilization 0.82
\* is one below floor(1.82 * rtt) for rtt = 50, 100, 200, 250, ...
C17_AsComputed ==
    [][\A d \in Draws :
          simulate_network_congestion(d) =>
             /\ d < packet_loss_rate => OneTimeoutRecorded
             /\ d >= packet_loss_rate => UNCHANGED LossWrites
             /\ rtt' = (IF network_utilization <= 70 THEN rtt
                        ELSE IF InflationRoundsBelow(rtt, network_utilization)
                        THEN (rtt * (100 + network_utilization)) \div 100 - 1
                        ELSE (rtt * (100 + network_utilization)) \div 100)]_vars

\* A call made at utilization 0.8 from rtt = 100 whose draw fell below the
\* loss rate: a timeout is recorded and rtt is 180, which is floor(1.8 * 100).
C17_Witness ==
    /\ HistLen >= 1
    /\ state_history[HistLen] \in TimeoutLabels
    /\ last_cwnd_reduction_time = now
    /\ network_utilization = 80
    /\ rtt = 180

\* C18: in every reachable state, set_algorithm switches included, the phase
\* is fast recovery only if the algorithm is RENO.
C18_FastRecoveryOnlyReno ==
    current_state = "FAST_RECOVERY" => algorithm = "RENO"

\* RENO in fast recovery, the log ending with the fast retransmit that
\* entered it.
C18_Witness ==
    /\ algorithm = "RENO"
    /\ current_state = "FAST_RECOVERY"
    /\ HistLen >= 1
    /\ state_history[HistLen] = "Fast Retransmit"
    /\ cwnd = ssthresh + 3

\* The readings of the steady clock.
ClockValues == {k * TickMs : k \in 0..MaxTicks}

\* C19: simulate_network_congestion apart, what an operation leaves in cwnd,
\* ssthresh, the phase and the logs depends only on the state it finds and
\* on its arguments, not on the time of the call; here for one send_packet
\* of a CUBIC session in congestion avoidance: the cwnd it assigns is the same
\* at every clock reading from the last reduction on.
C19_Original ==
    (algorithm = "CUBIC" /\ current_state = "CONGESTION_AVOIDANCE") =>
        \A t1, t2 \in ClockValues :
            (t1 >= last_cwnd_reduction_time /\ t2 >= last_cwnd_reduction_time)
                => CubicAvoidanceCwnd(t1) = CubicAvoidanceCwnd(t2)

\* CUBIC after timeout_event, send_packet, send_packet, the second send made
\* TickMs after the timeout: it took cwnd from 2 to 3.
C19_Witness ==
    /\ algorithm = "CUBIC"
    /\ cubic_beta = 7
    /\ state_history = <<"CUBIC Timeout", "CUBIC Slow Start",
                         "CUBIC Congestion Avoidance">>
    /\ cwnd_history = <<1, 1, 2>>
    /\ last_cwnd_reduction_time < now
    /\ cwnd = 3

\* The same three calls made with no tick of the clock in between: the
\* second send left cwnd at 2.
C19_WitnessAtOnce ==
    /\ algorithm = "CUBIC"
    /\ cubic_beta = 7
    /\ state_history = <<"CUBIC Timeout", "CUBIC Slow Start",
                         "CUBIC Congestion Avoidance">>
    /\ cwnd_history = <<1, 1, 2>>
    /\ last_cwnd_reduction_time = now
    /\ cwnd = 2

\* C20: with the seed and the sequence of calls fixed, a call of
\* simulate_network_congestion made at a given point either triggers
\* timeout_event in every run or in none: no state admits both a call that
\* records a timeout and one that does not.
C20_Original ==
    ~(/\ ENABLED (/\ SimulateNetworkCongestion
                  /\ Len(cwnd_history') = Len(cwnd_history) + 1)
      /\ ENABLED (/\ SimulateNetworkCongestion
                  /\ cwnd_history' = cwnd_history))

\* C21: under TAHOE, RENO and CUBIC a send_packet made in slow start doubles
\* cwnd, leaves the phase congestion avoidance if the doubled cwnd is at
\* least ssthresh and slow start otherwise, and leaves ssthresh as it was.
C21_SlowStartSend ==
    [][(/\ algorithm \in {"TAHOE", "RENO", "CUBIC"}
        /\ current_state = "SLOW_START"
        /\ send_packet) =>
          /\ cwnd' = 2 * cwnd
          /\ current_state' = (IF 2 * cwnd >= ssthresh
                               THEN "CONGESTION_AVOIDANCE"
                               ELSE "SLOW_START")
          /\ ssthresh' = ssthresh]_vars

\* A slow-start send from cwnd = 4 that reached ssthresh = 8 exactly and
\* left slow start.
C21_Witness ==
    /\ algorithm \in {"TAHOE", "RENO", "CUBIC"}
    /\ HistLen >= 1
    /\ state_history[HistLen] \in SlowStartLabels
    /\ cwnd_history[HistLen] = 4
    /\ ssthresh_history[HistLen] = 8
    /\ cwnd = 8
    /\ ssthresh = 8
    /\ current_state = "CONGESTION_AVOIDANCE"

\* What a TAHOE loss response leaves: half the window (at least 1) in
\* ssthresh, cwnd 1, slow start, no duplicates counted.
TahoeLossResult ==
    /\ ssthresh' = (IF cwnd \div 2 >= 1 THEN cwnd \div 2 ELSE 1)
    /\ cwnd' = 1
    /\ current_state' = "SLOW_START"
    /\ duplicate_ack_count' = 0

\* C22: under TAHOE the third duplicate_ack and timeout_event leave the same
\* cwnd, ssthresh, phase and duplicate_ack_count when made in the same
\* state: each leaves ssthresh = max(floor(cwnd / 2), 1), cwnd = 1, slow
\* start and a count of 0.
C22_TahoeFastRetransmit ==
    [][/\ (algorithm = "TAHOE" /\ duplicate_ack_count = 2 /\ duplicate_ack)
             => TahoeLossResult
       /\ (algorithm = "TAHOE" /\ timeout_event) => TahoeLossResult]_vars

\* A TAHOE fast retransmit at cwnd = 16.
C22_Witness ==
    /\ algorithm = "TAHOE"
    /\ HistLen >= 1
    /\ state_history[HistLen] = "Fast Retransmit"
    /\ cwnd_history[HistLen] = 16
    /\ ssthresh = 8
    /\ cwnd = 1
    /\ current_state = "SLOW_START"
    /\ duplicate_ack_count = 0

\* Every field but the five logs.
session == <<cwnd, ssthresh, rtt, timeout, duplicate_ack_count,
             in_slow_start, algorithm, current_state, cubic_beta,
             last_cwnd_reduction_time, conditions>>

\* C23: under RENO in congestion avoidance every send_packet adds 1 / cwnd
\* to cwnd, so that from any such state finitely many sends make cwnd
\* larger; hence no such send leaves cwnd and every other field of the
\* session as it found them (the sends after it would do the same for ever).
C23_Original ==
    [][(/\ algorithm = "RENO"
        /\ current_state = "CONGESTION_AVOIDANCE"
        /\ send_packet) =>
          (cwnd' > cwnd \/ session' # session)]_vars

\* What the code does instead: cwnd is an int, so cwnd + 1.0 / cwnd is
\* truncated back to cwnd for every cwnd above 1; only a cwnd of 1 grows,
\* to 2, and the phase stays congestion avoidance.
C23_AsComputed ==
    [][(/\ algorithm = "RENO"
        /\ current_state = "CONGESTION_AVOIDANCE"
        /\ send_packet) =>
          /\ cwnd' = (IF cwnd = 1 THEN 2 ELSE cwnd)
          /\ current_state' = "CONGESTION_AVOIDANCE"]_vars

\* Two RENO sends in congestion avoidance at cwnd = 8, and cwnd is still 8.
C23_Witness ==
    /\ algorithm = "RENO"
    /\ HistLen >= 2
    /\ state_history[HistLen - 1] = "Congestion Avoidance"
    /\ state_history[HistLen] = "Congestion Avoidance"
    /\ cwnd_history[HistLen - 1] = 8
    /\ cwnd_history[HistLen] = 8
    /\ current_state = "CONGESTION_AVOIDANCE"
    /\ cwnd = 8

\* C24: under RENO in fast recovery a send_packet adds exactly 1 to cwnd and
\* leaves the phase fast recovery; the phase leaves fast recovery only by
\* receive_ack (to congestion avoidance), by timeout_event, called directly
\* or from simulate_network_congestion (to slow start), or by reset or
\* set_algorithm.
C24_FastRecoverySends ==
    [][/\ (/\ algorithm = "RENO"
            /\ current_state = "FAST_RECOVERY"
            /\ send_packet) =>
             /\ cwnd' = cwnd + 1
             /\ current_state' = "FAST_RECOVERY"
       /\ (/\ current_state = "FAST_RECOVERY"
            /\ current_state' # "FAST_RECOVERY") =>
             \/ /\ \E n \in AckNumbers : receive_ack(n)
                /\ current_state' = "CONGESTION_AVOIDANCE"
             \/ /\ \/ timeout_event
                   \/ \E d \in Draws : /\ d < packet_loss_rate
                                        /\ simulate_network_congestion(d)
                /\ current_state' = "SLOW_START"
             \/ ResetOrSetAlgorithm]_vars

\* A send made in fast recovery: the log ends with it, cwnd is one above
\* the entry and the phase is still fast recovery.
C24_Witness ==
    /\ algorithm = "RENO"
    /\ HistLen >= 2
    /\ state_history[HistLen - 1] = "Fast Retransmit"
    /\ state_history[HistLen] = "Fast Recovery"
    /\ cwnd = cwnd_history[HistLen] + 1
    /\ current_state = "FAST_RECOVERY"

\* The BBR target with the default reference values: 2 * 10 * 100 / 8.
BbrTarget == (2 * BbrMaxBandwidth * BbrMinRtt) \div 8

\* C25: under BBR every send_packet made with cwnd below the target of 250
\* makes cwnd larger (so that repeated sends from the reset state bring cwnd
\* to the target), and cwnd never exceeds the target.
C25_Original ==
    [][/\ (algorithm = "BBR" /\ cwnd < BbrTarget /\ send_packet) =>
             (cwnd' > cwnd /\ cwnd' <= BbrTarget)
       /\ (algorithm = "BBR" /\ cwnd <= BbrTarget) =>
             (algorithm' = "BBR" => cwnd' <= BbrTarget)]_vars

\* What the code does instead: cwnd is an int, so from the reset state
\* min(250.0, 1 * 1.25) is truncated back to 1; nothing else raises cwnd
\* under BBR, and it is 1 in every state of a BBR session.
C25_AsComputed ==
    /\ [][(algorithm = "BBR" /\ send_packet) => cwnd' = cwnd]_vars
    /\ [](algorithm = "BBR" => cwnd = 1)

\* Three BBR sends from the reset state, and cwnd is still 1.
C25_Witness ==
    /\ algorithm = "BBR"
    /\ state_history = <<"BBR", "BBR", "BBR">>
    /\ cwnd_history = <<1, 1, 1>>
    /\ cwnd = 1

\* C26: under BBR every send_packet leaves the phase congestion avoidance;
\* timeout_event changes neither the phase nor ssthresh and sets cwnd to
\* max(floor(cwnd * 0.8), 1); and the phase, once congestion avoidance,
\* stays so until reset or set_algorithm.
C26_BbrPhase ==
    [][/\ (algorithm = "BBR" /\ send_packet) =>
             current_state' = "CONGESTION_AVOIDANCE"
       /\ (algorithm = "BBR" /\ timeout_event) =>
             /\ UNCHANGED <<current_state, ssthresh>>
             /\ cwnd' = (IF (8 * cwnd) \div 10 >= 1
                         THEN (8 * cwnd) \div 10
                         ELSE 1)
       /\ (/\ algorithm = "BBR"
            /\ current_state = "CONGESTION_AVOIDANCE"
            /\ ~ResetOrSetAlgorithm) =>
             current_state' = "CONGESTION_AVOIDANCE"]_vars

\* A BBR session that has sent, taken a timeout and a fast retransmit, and
\* is in congestion avoidance with the ssthresh of construction.
C26_Witness ==
    /\ algorithm = "BBR"
    /\ state_history = <<"BBR", "BBR Timeout", "BBR Fast Retransmit">>
    /\ current_state = "CONGESTION_AVOIDANCE"
    /\ ssthresh = 65535
    /\ cwnd = 1

\* C27: under CUBIC the third duplicate_ack sets ssthresh to the larger of
\* floor(cwnd * cubic_beta) and 1 and cwnd to that ssthresh, and the phase
\* stays congestion avoidance, the same after the event as before it.
C27_Original ==
    [][(algorithm = "CUBIC" /\ duplicate_ack_count = 2 /\ duplicate_ack) =>
          /\ ssthresh' = (IF (cubic_beta * cwnd) \div 10 >= 1
                          THEN (cubic_beta * cwnd) \div 10
                          ELSE 1)
          /\ cwnd' = ssthresh'
          /\ current_state' = "CONGESTION_AVOIDANCE"
          /\ current_state' = current_state]_vars

\* What the code does instead: ssthresh is the double product
\* cwnd * cubic_beta truncated (one below the floor at cwnd = 90, 170, ...
\* for cubic_beta = 0.7), at least 1; cwnd is that ssthresh; and the phase is
\* set to congestion avoidance whatever it was.
C27_AsComputed ==
    [][(algorithm = "CUBIC" /\ duplicate_ack_count = 2 /\ duplicate_ack) =>
          /\ ssthresh' =
                (IF cubic_beta = 7 /\ RoundsBelow(cwnd)
                 THEN (7 * cwnd) \div 10 - 1
                 ELSE IF (cubic_beta * cwnd) \div 10 >= 1
                 THEN (cubic_beta * cwnd) \div 10
                 ELSE 1)
          /\ cwnd' = ssthresh'
          /\ current_state' = "CONGESTION_AVOIDANCE"]_vars

\* A CUBIC fast retransmit taken in congestion avoidance at cwnd = 9 with
\* cubic_beta = 0.7: ssthresh and cwnd are 6 and the phase is as before.
C27_Witness ==
    /\ algorithm = "CUBIC"
    /\ cubic_beta = 7
    /\ HistLen >= 2
    /\ state_history[HistLen - 1] = "CUBIC Congestion Avoidance"
    /\ state_history[HistLen] = "CUBIC Fast Retransmit"
    /\ cwnd_history[HistLen] = 9
    /\ ssthresh = 6
    /\ cwnd = 6
    /\ current_state = "CONGESTION_AVOIDANCE"

\* C28: under CUBIC in congestion avoidance, whatever time has passed since
\* the last reduction, a send_packet does not decrease cwnd and increases
\* it by at most 1.
C28_CubicStep ==
    [][(/\ algorithm = "CUBIC"
        /\ current_state = "CONGESTION_AVOIDANCE"
        /\ send_packet) =>
          (cwnd' >= cwnd /\ cwnd' <= cwnd + 1)]_vars

\* A CUBIC send in congestion avoidance made some time after the last
\* reduction, which added 1 to cwnd.
C28_Witness ==
    /\ algorithm = "CUBIC"
    /\ HistLen >= 1
    /\ state_history[HistLen] = "CUBIC Congestion Avoidance"
    /\ last_cwnd_reduction_time < now
    /\ cwnd = cwnd_history[HistLen] + 1

\* A timeout_event or a third duplicate_ack.
LossEvent == timeout_event \/ (duplicate_ack_count = 2 /\ duplicate_ack)

\* C29 as stated: under every algorithm neither timeout_event nor the third
\* duplicate_ack leaves cwnd larger than it found it.
C29_Original ==
    [][LossEvent => cwnd' <= cwnd]_vars

\* C29 as amended: timeout_event never leaves cwnd larger than it found it,
\* nor does the third duplicate_ack under TAHOE, CUBIC and BBR; under RENO
\* the third duplicate_ack leaves cwnd = max(floor(cwnd / 2), 1) + 3, which
\* is larger than before exactly when cwnd was 4 or less.
C29_LossResponses ==
    [][/\ timeout_event => cwnd' <= cwnd
       /\ (algorithm # "RENO" /\ duplicate_ack_count = 2 /\ duplicate_ack)
             => cwnd' <= cwnd
       /\ (algorithm = "RENO" /\ duplicate_ack_count = 2 /\ duplicate_ack)
             => /\ cwnd' = (IF cwnd \div 2 >= 1 THEN cwnd \div 2 ELSE 1) + 3
                /\ (cwnd' > cwnd) <=> (cwnd <= 4)]_vars

\* A RENO fast retransmit at cwnd = 4 that left cwnd = 5.
C29_Witness ==
    /\ algorithm = "RENO"
    /\ HistLen >= 1
    /\ state_history[HistLen] = "Fast Retransmit"
    /\ cwnd_history[HistLen] = 4
    /\ current_state = "FAST_RECOVERY"
    /\ cwnd = 5

\* C30: send_packet appends to throughput_history the throughput of the
\* cwnd and rtt it finds, (cwnd * 1500 * 8) / (rtt * 1000), or 0 if rtt is
\* 0, before the growth rule runs, and to rtt_history that rtt.
C30_ThroughputSample ==
    [][send_packet =>
          /\ throughput_history' =
                 Append(throughput_history,
                        IF rtt = 0 THEN <<0, 1, 1>>
                        ELSE <<cwnd * 1500 * 8, rtt, 1000>>)
          /\ rtt_history' = Append(rtt_history, rtt)]_vars

\* Two sends at rtt = 181: the second sampled cwnd = 2, which it then
\* doubled.
C30_Witness ==
    /\ HistLen >= 2
    /\ state_history[HistLen] \in SlowStartLabels
    /\ Len(throughput_history) >= 2
    /\ throughput_history[Len(throughput_history)] = <<2 * 1500 * 8, 181, 1000>>
    /\ rtt_history[Len(rtt_history)] = 181
    /\ cwnd = 4

\* C31: the single-algorithm TCPTahoe class keeps cwnd >= 1 and ssthresh >= 1
\* after every send_packet, timeout_event and duplicate_ack, in any sequence.
C31_Original == basic_cwnd >= 1 /\ basic_ssthresh >= 1

\* A timeout_event or duplicate_ack taken at cwnd = 1 has left ssthresh = 0:
\* the class halves the window without the floor of 1.
C31_Witness ==
    /\ Len(basic_cwnd_history) >= 1
    /\ basic_state_history[Len(basic_state_history)]
           \in {"Timeout", "Fast Retransmit"}
    /\ basic_cwnd_history[Len(basic_cwnd_history)] = 1
    /\ basic_ssthresh = 0
    /\ basic_cwnd = 1

\* C32: in every reachable state of the four-algorithm session cwnd_history,
\* ssthresh_history and state_history have equal length, every entry of
\* state_history being the one label of a recorded send or loss event, and
\* throughput_history and rtt_history have equal length, the number of
\* send_packet calls since the last reset or set_algorithm.
C32_HistoryLengths ==
    /\ Len(cwnd_history) = Len(state_history)
    /\ Len(ssthresh_history) = Len(state_history)
    /\ \A i \in DOMAIN state_history :
           state_history[i] \in SendLabels \cup LossLabels
    /\ Len(throughput_history) = Len(rtt_history)
    /\ Len(rtt_history) = SendCount

\* A RENO fast retransmit followed by a send in fast recovery: two entries
\* in the first three histories, one in the other two.
C32_Witness ==
    /\ algorithm = "RENO"
    /\ state_history = <<"Fast Retransmit", "Fast Recovery">>
    /\ Len(cwnd_history) = 2
    /\ Len(throughput_history) = 1
    /\ Len(rtt_history) = 1

\* Times since the last reduction, in milliseconds, at which a send may read
\* the clock.
ElapsedReadings == {0, 100, 500, 1000, TickMs}

\* C33: under CUBIC outside slow start, with cubic_beta 0.7 or 0.8, the target
\* cubic_c * t^3 + cwnd / cubic_beta exceeds cwnd at every time t >= 0 since
\* the last reduction, so a send never takes the branch cwnd += 1 / cwnd.
C33_TargetAboveWindow ==
    (algorithm = "CUBIC" /\ current_state # "SLOW_START") =>
        /\ cubic_beta \in {7, 8}
        /\ now >= last_cwnd_reduction_time
        /\ \A elapsed \in ElapsedReadings \cup {now - last_cwnd_reduction_time} :
               CubicTargetNum(cwnd, cubic_beta, elapsed) >
                   cwnd * CubicTargetDen(cubic_beta)

\* A CUBIC session in congestion avoidance with cubic_beta = 0.8 whose last
\* send was made in congestion avoidance at a window of 2 or more.
C33_Witness ==
    /\ algorithm = "CUBIC"
    /\ current_state = "CONGESTION_AVOIDANCE"
    /\ cubic_beta = 8
    /\ HistLen >= 1
    /\ state_history[HistLen] = "CUBIC Congestion Avoidance"
    /\ cwnd_history[HistLen] >= 2

\* C34: no operation decreases rtt: it starts at 100, every
\* simulate_network_congestion made at a network_utilization above 0.7 leaves
\* it strictly larger, and it is at least 100 (so never 0) in every state.
C34_Original ==
    [][/\ rtt' >= rtt
       /\ rtt' >= InitialRtt
       /\ (network_utilization > 70
              /\ \E draw \in Draws : simulate_network_congestion(draw))
             => rtt' > rtt]_vars

\* The 29th inflation at a utilization of 0.8 has taken rtt from 1403277404
\* out of the int range: the session holds an rtt below 100.
C34_Witness ==
    /\ network_utilization = 80
    /\ rtt < InitialRtt

\* C35: a session under TAHOE and an object of the single-algorithm class,
\* both fresh and given the same send_packet and timeout_event calls, agree
\* after every call on cwnd and on being in slow start (in_slow_start of the
\* class, the phase SlowStart of the session).
C35_PairAgreement ==
    /\ basic_cwnd = cwnd
    /\ basic_in_slow_start <=> (current_state = "SLOW_START")

\* A timeout taken at cwnd = 1 has left the two with different thresholds
\* (0 in the class, 1 in the session), and the send after it has taken both
\* to cwnd = 2 in congestion avoidance.
C35_Witness ==
    /\ HistLen >= 2
    /\ state_history[HistLen - 1] = "Timeout"
    /\ cwnd_history[HistLen - 1] = 1
    /\ basic_state_history[HistLen] = "Congestion Avoidance"
    /\ basic_ssthresh = 0
    /\ ssthresh = 1
    /\ cwnd = 2
    /\ current_state = "CONGESTION_AVOIDANCE"

\* C36: StopAndWait never has more than one packet outstanding: every entry
\* of ack_history except possibly the last is true, send_packet accepting no
\* packet while an earlier one is unacknowledged, a reported timeout included.
C36_Original ==
    \A i \in 1..(Len(ack_history) - 1) : ack_history[i]

\* check_timeout has reported a timeout and send_packet has then accepted a
\* second packet: two packets are unacknowledged.
C36_Witness ==
    /\ total_timeouts >= 1
    /\ total_packets_sent = 2
    /\ ack_history = <<FALSE, FALSE>>

\* C37: whenever waiting_for_ack holds ack_history is non-empty, so
\* receive_ack never updates the last entry of an empty history.
C37_Original ==
    waiting_for_ack => ack_history # <<>>

\* A matching receive_ack has been made on an object that retransmit, with
\* nothing sent, had put in waiting: the update of the last entry of the
\* empty history has ended the process.
C37_Witness ==
    /\ halted
    /\ ack_history = <<>>
    /\ total_packets_sent = 0

\* C38: total_packets_acked never exceeds total_packets_sent.
C38_Original ==
    total_packets_acked <= total_packets_sent

\* One packet sent and acknowledged, then retransmit and a second matching
\* acknowledgement: two acknowledgements counted for one packet.
C38_Witness ==
    /\ total_packets_sent = 1
    /\ total_packets_acked = 2
    /\ ack_history = <<TRUE>>
    /\ saw_rtt_history # <<>>
    /\ ~halted

\* What StopAndWait_send_packet and StopAndWait_receive_ack write besides the
\* value returned.
saw_written == <<sequence_number, waiting_for_ack, packet_history, ack_history,
                 saw_rtt_history, last_send_time, total_packets_sent,
                 total_packets_acked, total_timeouts, saw_fixed>>

\* C39: sequence_number is 0 or 1; receive_ack(a) returns true exactly when
\* waiting_for_ack holds and a is sequence_number, and then clears
\* waiting_for_ack and flips sequence_number; otherwise it returns false and
\* changes nothing; send_packet made while waiting_for_ack holds returns false
\* and changes nothing.
C39_Original ==
    [][/\ sequence_number' \in {0, 1}
       /\ \A a \in ReceivedAcks :
              StopAndWait_receive_ack(a) =>
                  IF waiting_for_ack /\ a = sequence_number
                  THEN /\ returned' = "true"
                       /\ ~waiting_for_ack'
                       /\ sequence_number' = 1 - sequence_number
                  ELSE /\ returned' = "false"
                       /\ UNCHANGED saw_written
       /\ \A data \in PacketData :
              (waiting_for_ack /\ StopAndWait_send_packet(data)) =>
                  /\ returned' = "false"
                  /\ UNCHANGED saw_written]_<<saw_vars, now>>

\* A matching receive_ack made while waiting_for_ack held has not returned:
\* the history was empty (C37) and the process has ended in the call, with
\* waiting_for_ack still set.
C39_Witness ==
    /\ halted
    /\ waiting_for_ack
    /\ returned # "true"

\* C40: send_cross_layer_message terminates for every message: the chain of
\* nested messages a message triggers is finite, so the calls it makes
\* never outgrow the stack of the process.
C40_Original == ~stack_overflow
\* An ERROR_RATE_CHANGE message with an error_rate above 0.1 has filled the
\* stack with calls of send_cross_layer_message, each for a message equal to
\* the first, each with its entry in message_history, and the next call
\* has ended the process.
C40_Witness ==
    /\ stack_overflow
    /\ Len(call_stack) = MaxStack
    /\ \A i \in DOMAIN call_stack :
           /\ call_stack[i].fn = "send_cross_layer_message"
           /\ call_stack[i].message.event = "ERROR_RATE_CHANGE"
           /\ ValueAt(call_stack[i].message.parameters, "error_rate") > 100
           /\ message_history[Len(message_history) - MaxStack + i]
                  = call_stack[i].message

====
